---- MODULE Spec2Model ----
(***************************************************************************)
(* Model of the Redis-streams message bus of PavelRadostev/toolkit         *)
(* (package bus).  One Bus value, the callers of Execute / Emit / Register *)
(* / Run / Stop, the consumer goroutines started by Run (processStream,    *)
(* processMessage, sendResponse), and the Redis state they share: the      *)
(* streams and the reply pipelines.  Time is abstracted: a timer may fire  *)
(* at any moment after it was set.  The broker serializer and the CBOR     *)
(* transport (Serialize, Deserialize, deserializeMessage) are operators;   *)
(* CodecSpec takes single requests and stream entries through them.        *)
(***************************************************************************)
EXTENDS Integers, Sequences, FiniteSets, TLC

\* ---------------------------------------------------------------- bounds
\* Number of Execute / Emit calls made on the bus.
MaxCalls == 2
\* Number of consumer goroutines Run may start in total.
MaxTasks == 1
\* Most goroutines followed when each stream has its own.
PairTasks == 2

\* ------------------------------------------------------------- constants
\* DefaultTimeout: seconds Execute waits, and the default of field t.
DefaultTimeout == 300
\* TTL in seconds that sendResponse puts on the reply key.
ReplyTTL == 30
\* Capacity of the waiter channel made by Execute.
ChanCap == 1

Streams == {"A", "B"}
Constructors == {"k1"}
NoCtor == "none"
Calls == 1..MaxCalls
TaskIds == 1..MaxTasks

\* What a Handle invocation can return: (result, err), each nil or not.
HandleResults == [data : {"nil", "res"}, err : {"nil", "err"}]

NoOrigin == [task |-> 0, stream |-> "", id |-> 0]
NoRes == [data |-> "nil", err |-> "nil", of |-> NoOrigin]

VARIABLES
    subscribers,  \* Bus.subscribers: stream -> constructor (NoCtor: no entry)
    responses,    \* Bus.responses: the requestIDs that have a waiter channel
    chan,         \* the waiter channels: requestID -> [buf, open, closes]
    busCtxDone,   \* Bus.ctx (the context given to NewBus) is cancelled
    cancel,       \* Bus.cancel: "nil" or "set"
    wg,           \* Bus.wg: the WaitGroup counter
    stream,       \* Redis: stream -> sequence of entries (entry id = index)
    pipes,        \* Redis: the reply pipelines the bus has executed
    calls,        \* the Execute / Emit calls: position, context, outcome
    tasks,        \* the consumer goroutines: sequence of processStream states
    running,      \* <<task, entry id>> of the Handle invocations in flight
    recv,         \* per task: the entry ids XREAD returned to it, in order
    handled,      \* the Handle invocations that returned: task, entry, result
    stopPc,       \* position of the Stop call
    panicked,     \* "no", or the unrecovered panic the process died of
    codec,        \* one request or one stream entry taken through the codecs
    factory,      \* a HandlerFactory: its two maps and the last call on it
    registry      \* Bus.mu and the accesses to Bus.subscribers in progress

busVars == <<subscribers, responses, chan, busCtxDone, cancel, wg, stream,
             pipes, calls, tasks, running, recv, handled, stopPc, panicked>>

\* What a specification of one part leaves alone.
aside == <<codec, factory, registry>>

vars == <<busVars, codec, factory, registry>>

\* ---------------------------------------------------------- NeedsResponse

\* Variant of NeedsResponse: any value but 0 asks for a reply.
NeedsResponseNonZero(req) == req.r # 0

\* Variant of NeedsResponse: any flag value asks for a reply.
NeedsResponseAny(req) == req.r >= 0

\* TransportRequest.NeedsResponse
NeedsResponse(req) == req.r = 1

\* ---------------------------------------------------------------- strconv
\* Strings are sequences of characters, []byte values sequences of bytes.

Digits == <<"0", "1", "2", "3", "4", "5", "6", "7", "8", "9">>

RECURSIVE DigitsOf(_)
\* The decimal digits of a natural number.
DigitsOf(n) ==
    IF n < 10 THEN <<Digits[n + 1]>>
    ELSE DigitsOf(n \div 10) \o <<Digits[(n % 10) + 1]>>

\* strconv.Itoa
Itoa(n) == IF n < 0 THEN <<"-">> \o DigitsOf(0 - n) ELSE DigitsOf(n)

IsDigit(ch) == \E d \in 1..10 : Digits[d] = ch
DigitVal(ch) == (CHOOSE d \in 1..10 : Digits[d] = ch) - 1

RECURSIVE ValueOf(_)
\* The number a non-empty sequence of digits denotes.
ValueOf(ds) ==
    IF ds = <<>> THEN 0
    ELSE 10 * ValueOf(SubSeq(ds, 1, Len(ds) - 1)) + DigitVal(ds[Len(ds)])

AllDigits(ds) == ds # <<>> /\ \A j \in 1..Len(ds) : IsDigit(ds[j])

\* strconv.Atoi: an optional sign, then digits; anything else is an error.
Atoi(str) ==
    LET signed == str # <<>> /\ str[1] \in {"-", "+"}
        body == IF signed THEN Tail(str) ELSE str
    IN IF ~AllDigits(body) THEN [ok |-> FALSE, n |-> 0]
       ELSE [ok |-> TRUE,
             n |-> IF str[1] = "-" THEN 0 - ValueOf(body) ELSE ValueOf(body)]

\* Variant of FormatFloat: precision 0, the fraction is dropped.
FormatFloatWhole(x) ==
    (IF x < 0 THEN <<"-">> ELSE <<>>)
    \o DigitsOf((IF x < 0 THEN 0 - x ELSE x) \div 10)

\* A float64 timestamp is kept as its number of tenths of a second.
\* strconv.FormatFloat(x, 'f', -1, 64): the shortest decimal that reads back
\* as x: no fraction for a whole number, no trailing zero.
FormatFloat(x) ==
    LET a == IF x < 0 THEN 0 - x ELSE x
        whole == DigitsOf(a \div 10)
        frac == IF a % 10 = 0 THEN <<>> ELSE <<".", Digits[(a % 10) + 1]>>
    IN (IF x < 0 THEN <<"-">> ELSE <<>>) \o whole \o frac

\* strconv.ParseFloat(str, 64), for plain decimals: sign, digits, and
\* optionally a point and one more digit.
ParseFloat(str) ==
    LET signed == str # <<>> /\ str[1] \in {"-", "+"}
        body == IF signed THEN Tail(str) ELSE str
        dot == {j \in 1..Len(body) : body[j] = "."}
        whole == IF dot = {} THEN body
                 ELSE SubSeq(body, 1, (CHOOSE j \in dot : TRUE) - 1)
        frac == IF dot = {} THEN <<"0">>
                ELSE SubSeq(body, (CHOOSE j \in dot : TRUE) + 1, Len(body))
        a == 10 * ValueOf(whole) + ValueOf(frac)
    IN IF Cardinality(dot) > 1 \/ ~AllDigits(whole) \/ ~AllDigits(frac)
          \/ Len(frac) # 1
       THEN [ok |-> FALSE, x |-> 0]
       ELSE [ok |-> TRUE, x |-> IF body # str /\ str[1] = "-" THEN 0 - a ELSE a]

\* ------------------------------------------------------- TransportRequest

\* The zero value of TransportRequest.  A RequestID or RedisMessageID of 0
\* stands for the empty string.
ZeroReq == [id |-> 0, c |-> 0, i |-> 0, m |-> <<>>, p |-> <<>>, r |-> 0, t |-> 0]

\* A value of a Redis field map (map[string]interface{}), with its Go type.
Str(x) == [ty |-> "string", v |-> x]
Bytes(x) == [ty |-> "bytes", v |-> x]
Other(x) == [ty |-> "int64", v |-> x]

\* The result of a decoding: a request, or an error.
Decoded(req) == [ok |-> TRUE, err |-> "", req |-> req]
Failed(err) == [ok |-> FALSE, err |-> err, req |-> ZeroReq]

\* Variant of RequiredAttrs: properties are optional.
RequiredAttrsNoP == {"i", "r"}

\* RedisBrokerSerialize.requiredAttrs
RequiredAttrs == {"i", "r", "p"}

\* Variant of Serialize: t and c are written whatever their value.
SerializeAll(request) ==
    ("i" :> Str(request.i)) @@ ("r" :> Str(Itoa(request.r)))
    @@ ("p" :> Str(request.p))
    @@ (IF Len(request.m) > 0 THEN "m" :> Str(request.m) ELSE <<>>)
    @@ ("t" :> Str(Itoa(request.t)))
    @@ ("c" :> Str(FormatFloat(request.c)))

\* RedisBrokerSerialize.Serialize: i, r, p always; m, t, c only when set.
Serialize(request) ==
    ("i" :> Str(request.i)) @@ ("r" :> Str(Itoa(request.r)))
    @@ ("p" :> Str(request.p))
    @@ (IF Len(request.m) > 0 THEN "m" :> Str(request.m) ELSE <<>>)
    @@ (IF request.t > 0 THEN "t" :> Str(Itoa(request.t)) ELSE <<>>)
    @@ (IF request.c > 0 THEN "c" :> Str(FormatFloat(request.c)) ELSE <<>>)

\* RedisBrokerSerialize.checkRequiredAttrs
CheckRequiredAttrs(messageData) == RequiredAttrs \subseteq DOMAIN messageData

\* Variant of AbsentTimeout: the field keeps its zero value.
AbsentTimeoutZero == ZeroReq.t

\* Deserialize, the else branch of the read of t: req.Timeout =
\* DefaultTimeout.
AbsentTimeout == DefaultTimeout

\* RedisBrokerSerialize.Deserialize: the required keys, then each field
\* with its type test and parse; an absent t gives DefaultTimeout.
Deserialize(messageData) ==
    LET has(k) == k \in DOMAIN messageData
        isStr(k) == messageData[k].ty = "string"
    IN IF ~CheckRequiredAttrs(messageData)
       THEN Failed("attribute not found in message data")
       ELSE IF has("i") /\ ~isStr("i") THEN Failed("invalid RequestID type")
       ELSE IF has("r") /\ ~isStr("r")
       THEN Failed("invalid ReturnResult type")
       ELSE IF has("r") /\ ~Atoi(messageData["r"].v).ok
       THEN Failed("invalid ReturnResult string format")
       ELSE IF has("p") /\ messageData["p"].ty \notin {"bytes", "string"}
       THEN Failed("invalid Properties type")
       ELSE IF has("m") /\ ~isStr("m") THEN Failed("invalid Message type")
       ELSE IF has("t") /\ ~isStr("t") THEN Failed("invalid Timeout type")
       ELSE IF has("t") /\ ~Atoi(messageData["t"].v).ok
       THEN Failed("invalid Timeout string format")
       ELSE IF has("c") /\ ~isStr("c")
       THEN Failed("invalid CreatedTimestamp type")
       ELSE IF has("c") /\ ~ParseFloat(messageData["c"].v).ok
       THEN Failed("invalid CreatedTimestamp string format")
       ELSE Decoded([id |-> 0,
                     i |-> IF has("i") THEN messageData["i"].v ELSE 0,
                     r |-> IF has("r") THEN Atoi(messageData["r"].v).n ELSE 0,
                     p |-> IF has("p") THEN messageData["p"].v ELSE <<>>,
                     m |-> IF has("m") THEN messageData["m"].v ELSE <<>>,
                     t |-> IF has("t") THEN Atoi(messageData["t"].v).n
                           ELSE AbsentTimeout,
                     c |-> IF has("c") THEN ParseFloat(messageData["c"].v).x
                           ELSE 0])

\* cbor.Marshal of a TransportRequest: a CBOR map with the seven keys of the
\* struct tags (no omitempty).
Blob(request) == [valid |-> TRUE, map |-> request]

\* Bytes that are not the CBOR encoding of a map.
Garbage == [valid |-> FALSE, map |-> <<>>]

\* DecodeTransportRequest: cbor.Unmarshal into a zero TransportRequest; a
\* key that is absent leaves its field zero.
DecodeTransportRequest(data) ==
    LET field(k) == IF k \in DOMAIN data.map THEN data.map[k] ELSE ZeroReq[k]
    IN IF ~data.valid THEN Failed("cbor: cannot unmarshal")
       ELSE Decoded([k \in DOMAIN ZeroReq |-> field(k)])

\* Variant of StampID: the id field is left as decoded.
StampIDKeep(req, msgID) == req

\* deserializeMessage: transportReq.RedisMessageID = msg.ID
StampID(req, msgID) == [req EXCEPT !.id = msgID]

\* Bus.deserializeMessage: with a "data" field the CBOR blob is decoded and
\* a failure is returned; without one the broker serializer reads the
\* fields.  The entry id is stamped on what was decoded.
DeserializeMessage(msg) ==
    IF "data" \in DOMAIN msg.values
    THEN IF msg.values["data"].ty \notin {"string", "bytes"}
         THEN Failed("invalid data type")
         ELSE LET d == DecodeTransportRequest(msg.values["data"].v)
              IN IF ~d.ok THEN d ELSE Decoded(StampID(d.req, msg.id))
    ELSE LET d == Deserialize(msg.values)
         IN IF ~d.ok THEN d ELSE Decoded(StampID(d.req, msg.id))

\* A stream entry as XREAD returns it.
XMessage(id, values) == [id |-> id, values |-> values]

\* time.Now() of Execute / Emit, in tenths of a second.
Now == 15
\* pub.Serialize(): the payload bytes of the publisher.
Payload == <<"p1">>

\* Bus.Execute / Bus.Emit build the envelope: RequestID, ReturnResult, the
\* empty CBOR map as Message, the payload, DefaultTimeout, the time.
TransportReq(requestID, returnResult) ==
    [id |-> 0, c |-> Now, i |-> requestID, m |-> <<"a0">>, p |-> Payload,
     r |-> returnResult, t |-> DefaultTimeout]

\* An entry nothing decodes: a "data" field that is not CBOR.
Undecodable == "data" :> Bytes(Garbage)

\* ------------------------------------------------------------------ Redis

\* The <<stream, id>> pairs a pipeline names in XDEL commands.
XDelOf(p) ==
    {<<p.cmds[j].key, p.cmds[j].arg>> :
        j \in {n \in DOMAIN p.cmds : p.cmds[n].op = "XDEL"}}

\* The keys a pipeline names in RPUSH commands.
RPushKeys(p) ==
    {p.cmds[j].key : j \in {n \in DOMAIN p.cmds : p.cmds[n].op = "RPUSH"}}

\* XDEL'ed entries: those whose reply pipeline was executed.
Deleted == UNION {XDelOf(p) : p \in {q \in pipes : q.ok}}

\* Keys of the reply lists present in Redis.
ReplyKeys == UNION {RPushKeys(p) : p \in {q \in pipes : q.ok}}

\* The id XREAD starts after: "$" is the last id of the stream when the
\* command is issued.
ResolveCursor(lastID, s) == IF lastID = "$" THEN Len(stream[s]) ELSE lastID

\* Entries XREAD can return for a cursor: present and with a greater id.
Pending(s, cursor) ==
    {k \in 1..Len(stream[s]) : k > cursor /\ <<s, k>> \notin Deleted}

\* Count = 1: the entry of least id.
NextEntry(s, cursor) ==
    CHOOSE k \in Pending(s, cursor) : \A j \in Pending(s, cursor) : k <= j

\* ------------------------------------------------------------------- Init

\* What deserializeMessage makes of entry k of stream s (the zero request
\* when it fails).
Entry(s, k) == DeserializeMessage(XMessage(k, stream[s][k])).req

NoChan == [buf |-> <<>>, open |-> FALSE, closes |-> 0]
NoCall == [pc |-> "idle", kind |-> "none", stream |-> "", ctxDone |-> FALSE,
           first |-> "none", outcome |-> "none", resp |-> NoRes]

\* NewBus: empty maps, ctx the caller's context, cancel left unset.
NewBus ==
    /\ subscribers = [s \in Streams |-> NoCtor]
    /\ responses = {}
    /\ chan = [c \in Calls |-> NoChan]
    /\ busCtxDone = FALSE
    /\ cancel = "nil"
    /\ wg = 0
    /\ stream = [s \in Streams |-> <<>>]
    /\ pipes = {}
    /\ calls = [c \in Calls |-> NoCall]
    /\ tasks = <<>>
    /\ running = {}
    /\ recv = <<>>
    /\ handled = {}
    /\ stopPc = "idle"
    /\ panicked = "no"

\* The codecs are followed on their own, apart from the running bus.
CodecOff ==
    [pc |-> "off", req |-> ZeroReq, stream |-> "", msg |-> XMessage(0, <<>>),
     flat |-> <<>>, back |-> Failed(""), viaA |-> Failed(""),
     viaB |-> Failed(""), got |-> Failed(""),
     h |-> [data |-> "nil", err |-> "nil"], enc |-> TRUE, pipe |-> {}]

\* NewHandlerFactory: two empty maps.  Off: no factory is followed.
NoCreated == [streamName |-> "", err |-> "", called |-> <<>>,
              sub |-> "nil", suberr |-> "nil"]
NoFactoryCall ==
    [op |-> "none", streamName |-> "", arg |-> "", constructors |-> <<>>,
     repositories |-> <<>>, made |-> [sub |-> "nil", err |-> "nil"],
     created |-> NoCreated, has |-> FALSE, streams |-> <<>>]
NewHandlerFactory ==
    [on |-> TRUE, constructors |-> <<>>, repositories |-> <<>>,
     latest |-> [s \in Streams |-> "none"],
     latestRepo |-> [s \in Streams |-> "none"],
     last |-> NoFactoryCall]
FactoryOff == [NewHandlerFactory EXCEPT !.on = FALSE]

\* Bus.mu free, no access to Bus.subscribers in progress.
\* The goroutines that call Bus.Register.
Registrars == {"r1", "r2"}

\* The subscribers map with its lock b.mu, and the goroutines that touch
\* it: map is the set of its keys, writer and readers are the holders of
\* b.mu, access the reads and writes of the map that are under way.
NewRegistry ==
    [on |-> TRUE, map |-> {}, writer |-> "none", readers |-> {},
     access |-> {},
     register |-> [r \in Registrars |-> [pc |-> "idle", stream |-> ""]],
     run |-> [pc |-> "idle", streams |-> {}],
     task |-> [s \in Streams |->
                  [pc |-> "none", raced |-> FALSE, got |-> "none"]]]

RegistryOff == [NewRegistry EXCEPT !.on = FALSE]

Init ==
    /\ NewBus
    /\ codec = CodecOff /\ factory = FactoryOff /\ registry = RegistryOff

\* An unrecovered panic ends the process: its goroutines, calls and memory
\* are gone; what is in Redis stays.
Panic(cause) ==
    /\ panicked' = cause
    /\ subscribers' = [s \in Streams |-> NoCtor]
    /\ responses' = {}
    /\ chan' = [c \in Calls |-> NoChan]
    /\ calls' = [c \in Calls |-> NoCall]
    /\ tasks' = <<>>
    /\ running' = {}
    /\ recv' = <<>>
    /\ handled' = {}
    /\ UNCHANGED <<busCtxDone, cancel, wg, stream, pipes>>

\* --------------------------------------------------------------- Register

\* Bus.Register(streamName, constructor)
Register(s, k) ==
    /\ panicked = "no"
    /\ subscribers' = [subscribers EXCEPT ![s] = k]
    /\ UNCHANGED <<responses, chan, busCtxDone, cancel, wg, stream, pipes,
                   calls, tasks, running, recv, handled, stopPc, panicked>>
    /\ UNCHANGED aside

\* ---------------------------------------------------------------- Execute

\* The next call is the idle one of least number (requestIDs are fresh:
\* generateRequestID draws 16 random bytes per call).
IsNextCall(c) ==
    /\ calls[c].pc = "idle"
    /\ \A d \in Calls : d < c => calls[d].pc # "idle"

\* Variant of ExecuteBegin: no waiter is stored before XADD.
ExecuteBeginNoRegister(c, s, serOk) ==
    /\ panicked = "no"
    /\ IsNextCall(c)
    /\ calls' = [calls EXCEPT ![c].pc = IF serOk THEN "xadd" ELSE "done",
                              ![c].kind = "execute", ![c].stream = s,
                              ![c].outcome = IF serOk THEN "none"
                                             ELSE "serialize_error"]
    /\ UNCHANGED <<subscribers, responses, chan, busCtxDone, cancel, wg,
                   stream, pipes, tasks, running, recv, handled, stopPc,
                   panicked>>
    /\ UNCHANGED aside

\* Variant of ExecuteBegin: the waiter is stored before the envelope is
\* serialized, and stays when serialization fails.
ExecuteBeginRegisterFirst(c, s, serOk) ==
    /\ panicked = "no"
    /\ IsNextCall(c)
    /\ responses' = responses \cup {c}
    /\ chan' = [chan EXCEPT ![c] = [buf |-> <<>>, open |-> TRUE,
                                    closes |-> 0]]
    /\ IF serOk
       THEN calls' = [calls EXCEPT ![c].pc = "xadd", ![c].kind = "execute",
                                   ![c].stream = s]
       ELSE calls' = [calls EXCEPT ![c].pc = "done", ![c].kind = "execute",
                                   ![c].stream = s,
                                   ![c].outcome = "serialize_error"]
    /\ UNCHANGED <<subscribers, busCtxDone, cancel, wg, stream, pipes, tasks,
                   running, recv, handled, stopPc, panicked>>
    /\ UNCHANGED aside

\* Bus.Execute, up to the registration of the waiter: pub.Serialize and
\* serializer.Serialize may fail (return before anything is registered);
\* otherwise make(chan Response, 1) is stored under requestID.
ExecuteBegin(c, s, serOk) ==
    /\ panicked = "no"
    /\ IsNextCall(c)
    /\ IF serOk
       THEN /\ responses' = responses \cup {c}
            /\ chan' = [chan EXCEPT ![c] = [buf |-> <<>>, open |-> TRUE,
                                            closes |-> 0]]
            /\ calls' = [calls EXCEPT ![c].pc = "xadd", ![c].kind = "execute",
                                      ![c].stream = s]
       ELSE /\ calls' = [calls EXCEPT ![c].pc = "done", ![c].kind = "execute",
                                      ![c].stream = s,
                                      ![c].outcome = "serialize_error"]
            /\ UNCHANGED <<responses, chan>>
    /\ UNCHANGED <<subscribers, busCtxDone, cancel, wg, stream, pipes, tasks,
                   running, recv, handled, stopPc, panicked>>
    /\ UNCHANGED aside

\* Variant of ExecuteXAdd: XAdd is called before the cleanup is deferred,
\* a failure returns at once.
ExecuteXAddNoDefer(c, xaddOk) ==
    /\ panicked = "no"
    /\ calls[c].pc = "xadd"
    /\ IF xaddOk /\ ~calls[c].ctxDone
       THEN /\ stream' = [stream EXCEPT ![calls[c].stream] =
                              Append(@, Serialize(TransportReq(c, 1)))]
            /\ calls' = [calls EXCEPT ![c].pc = "select"]
       ELSE /\ calls' = [calls EXCEPT ![c].pc = "done",
                                      ![c].outcome = "xadd_error"]
            /\ UNCHANGED stream
    /\ UNCHANGED <<subscribers, responses, chan, busCtxDone, cancel, wg, pipes,
                   tasks, running, recv, handled, stopPc, panicked>>
    /\ UNCHANGED aside

\* Bus.Execute: redis.XAdd(ctx, ...).  It fails on a transport error or a
\* cancelled ctx; the function then returns through the deferred cleanup.
ExecuteXAdd(c, xaddOk) ==
    /\ panicked = "no"
    /\ calls[c].pc = "xadd"
    /\ IF xaddOk /\ ~calls[c].ctxDone
       THEN /\ stream' = [stream EXCEPT ![calls[c].stream] =
                              Append(@, Serialize(TransportReq(c, 1)))]
            /\ calls' = [calls EXCEPT ![c].pc = "select"]
       ELSE /\ calls' = [calls EXCEPT ![c].pc = "cleanup",
                                      ![c].outcome = "xadd_error"]
            /\ UNCHANGED stream
    /\ UNCHANGED <<subscribers, responses, chan, busCtxDone, cancel, wg, pipes,
                   tasks, running, recv, handled, stopPc, panicked>>
    /\ UNCHANGED aside

\* Which of the three events of the select was the first to happen for a
\* call: a response put on its channel, its ctx done, its timer fired.
FirstEvent(c, event) ==
    IF calls[c].first # "none" THEN calls[c].first
    ELSE IF chan[c].buf # <<>> THEN "response"
    ELSE event

\* Bus.Execute, select case response := <-responseCh
ExecuteRecv(c) ==
    /\ panicked = "no"
    /\ calls[c].pc = "select"
    /\ chan[c].buf # <<>>
    /\ calls' = [calls EXCEPT ![c].pc = "cleanup", ![c].outcome = "response",
                              ![c].first = FirstEvent(c, "response"),
                              ![c].resp = Head(chan[c].buf)]
    /\ chan' = [chan EXCEPT ![c].buf = Tail(@)]
    /\ UNCHANGED <<subscribers, responses, busCtxDone, cancel, wg, stream,
                   pipes, tasks, running, recv, handled, stopPc, panicked>>
    /\ UNCHANGED aside

\* Bus.Execute, select case <-ctx.Done()
ExecuteCtxDone(c) ==
    /\ panicked = "no"
    /\ calls[c].pc = "select"
    /\ calls[c].ctxDone
    /\ calls' = [calls EXCEPT ![c].pc = "cleanup", ![c].outcome = "cancelled"]
    /\ UNCHANGED <<subscribers, responses, chan, busCtxDone, cancel, wg,
                   stream, pipes, tasks, running, recv,
                   handled, stopPc, panicked>>
    /\ UNCHANGED aside

\* Bus.Execute, select case <-time.After(timeout): the timer, started by
\* the select, fires before a response is on the channel and before ctx is
\* done (a select that finds one of those ready does not wait for it).
ExecuteTimeout(c) ==
    /\ panicked = "no"
    /\ calls[c].pc = "select"
    /\ chan[c].buf = <<>> /\ ~calls[c].ctxDone
    /\ calls' = [calls EXCEPT ![c].pc = "cleanup", ![c].outcome = "timeout",
                              ![c].first = FirstEvent(c, "timer")]
    /\ UNCHANGED <<subscribers, responses, chan, busCtxDone, cancel, wg,
                   stream, pipes, tasks, running, recv,
                   handled, stopPc, panicked>>
    /\ UNCHANGED aside

\* Variant of ExecuteCleanup: the channel is closed, the map entry stays.
ExecuteCleanupNoDelete(c) ==
    /\ panicked = "no"
    /\ calls[c].pc = "cleanup"
    /\ chan' = [chan EXCEPT ![c].open = FALSE, ![c].closes = @ + 1]
    /\ calls' = [calls EXCEPT ![c].pc = "done"]
    /\ UNCHANGED <<subscribers, responses, busCtxDone, cancel, wg, stream,
                   pipes, tasks, running, recv, handled, stopPc, panicked>>
    /\ UNCHANGED aside

\* Bus.Execute, the deferred function: under responseMu, delete the map
\* entry and close the channel.
ExecuteCleanup(c) ==
    /\ panicked = "no"
    /\ calls[c].pc = "cleanup"
    /\ responses' = responses \ {c}
    /\ chan' = [chan EXCEPT ![c].open = FALSE, ![c].closes = @ + 1]
    /\ calls' = [calls EXCEPT ![c].pc = "done"]
    /\ UNCHANGED <<subscribers, busCtxDone, cancel, wg, stream, pipes, tasks,
                   running, recv, handled, stopPc, panicked>>
    /\ UNCHANGED aside

\* The caller cancels the context it passed to Execute, while the call is
\* at a point that looks at it (XAdd, the select).
CancelCtx(c) ==
    /\ panicked = "no"
    /\ calls[c].pc \in {"xadd", "select"}
    /\ ~calls[c].ctxDone
    /\ calls' = [calls EXCEPT ![c].ctxDone = TRUE,
                              ![c].first = FirstEvent(c, "ctx")]
    /\ UNCHANGED <<subscribers, responses, chan, busCtxDone, cancel, wg,
                   stream, pipes, tasks, running, recv,
                   handled, stopPc, panicked>>
    /\ UNCHANGED aside

\* ------------------------------------------------------------------- Emit

\* Bus.Emit: serialize, XADD with ReturnResult 0, return.
Emit(c, s, serOk, xaddOk) ==
    /\ panicked = "no"
    /\ IsNextCall(c)
    /\ IF ~serOk
       THEN /\ calls' = [calls EXCEPT ![c].pc = "done", ![c].kind = "emit",
                                      ![c].stream = s,
                                      ![c].outcome = "serialize_error"]
            /\ UNCHANGED stream
       ELSE IF ~xaddOk
       THEN /\ calls' = [calls EXCEPT ![c].pc = "done", ![c].kind = "emit",
                                      ![c].stream = s,
                                      ![c].outcome = "xadd_error"]
            /\ UNCHANGED stream
       ELSE /\ stream' = [stream EXCEPT ![s] =
                              Append(@, Serialize(TransportReq(c, 0)))]
            /\ calls' = [calls EXCEPT ![c].pc = "done", ![c].kind = "emit",
                                      ![c].stream = s, ![c].outcome = "emitted"]
    /\ UNCHANGED <<subscribers, responses, chan, busCtxDone, cancel, wg, pipes,
                   tasks, running, recv, handled, stopPc, panicked>>
    /\ UNCHANGED aside

\* Another producer on the same Redis appends an entry that does not decode.
PeerAdd(c, s) ==
    /\ panicked = "no"
    /\ IsNextCall(c)
    /\ stream' = [stream EXCEPT ![s] = Append(@, Undecodable)]
    /\ calls' = [calls EXCEPT ![c].pc = "done", ![c].kind = "peer",
                              ![c].stream = s, ![c].outcome = "added"]
    /\ UNCHANGED <<subscribers, responses, chan, busCtxDone, cancel, wg, pipes,
                   tasks, running, recv, handled, stopPc, panicked>>
    /\ UNCHANGED aside

\* -------------------------------------------------------------------- Run

RECURSIVE SeqOf(_)
\* The elements of a finite set, one after the other.
SeqOf(S) ==
    IF S = {} THEN <<>>
    ELSE LET x == CHOOSE y \in S : TRUE IN <<x>> \o SeqOf(S \ {x})

\* The goroutine Run starts for one stream, before it is scheduled.  atRun
\* is history: the constructor b.subscribers held for the stream when Run
\* issued the go statement.
NewTask(s) ==
    [stream |-> s, pc |-> "start", ctor |-> NoCtor, atRun |-> subscribers[s],
     lastID |-> "$",
     cursor |-> 0, id |-> 0, req |-> ZeroReq, res |-> NoRes, ch |-> 0]

\* Variant of Started: processStream is called without go, so the loop over
\* the streams never gets past the first.
StartedFirst(registered) ==
    [n \in 1..(IF registered = {} THEN 0 ELSE 1) |->
        NewTask(SeqOf(registered)[n])]

\* Bus.Run, the loop over the streams it collected: one goroutine each.
Started(registered) ==
    [n \in 1..Cardinality(registered) |-> NewTask(SeqOf(registered)[n])]

\* Bus.Run: with no subscriber it logs and returns; otherwise it starts one
\* goroutine per key of b.subscribers.  wg is not touched.  At most limit
\* goroutines are followed.
RunUpTo(limit) ==
    /\ panicked = "no"
    /\ LET registered == {s \in Streams : subscribers[s] # NoCtor}
       IN /\ Len(tasks) + Cardinality(registered) <= limit
          /\ tasks' = tasks \o Started(registered)
          /\ recv' = recv \o [n \in 1..Len(Started(registered)) |-> <<>>]
    /\ UNCHANGED <<subscribers, responses, chan, busCtxDone, cancel, wg,
                   stream, pipes, calls, running, handled, stopPc, panicked>>
    /\ UNCHANGED aside

Run == RunUpTo(MaxTasks)

\* ---------------------------------------------------------- processStream

\* processStream entry: lastID := "$"; constructor := b.subscribers[name]
ProcessStreamStart(t) ==
    /\ panicked = "no"
    /\ t \in DOMAIN tasks
    /\ tasks[t].pc = "start"
    /\ tasks' = [tasks EXCEPT ![t].pc = "loop",
                              ![t].ctor = subscribers[tasks[t].stream]]
    /\ UNCHANGED <<subscribers, responses, chan, busCtxDone, cancel, wg,
                   stream, pipes, calls, running, recv,
                   handled, stopPc, panicked>>
    /\ UNCHANGED aside

\* processStream: redis.XRead(b.ctx, Streams: {streamName, lastID},
\* Count: 1, Block: 0) is issued.
XReadIssue(t) ==
    /\ panicked = "no"
    /\ t \in DOMAIN tasks
    /\ tasks[t].pc = "loop"
    /\ tasks' = [tasks EXCEPT ![t].pc = "xread",
                   ![t].cursor = ResolveCursor(tasks[t].lastID, tasks[t].stream)]
    /\ UNCHANGED <<subscribers, responses, chan, busCtxDone, cancel, wg,
                   stream, pipes, calls, running, recv,
                   handled, stopPc, panicked>>
    /\ UNCHANGED aside

\* processStream: XRead returns err != nil (transport error, or b.ctx
\* cancelled): log and continue.
XReadError(t) ==
    /\ panicked = "no"
    /\ t \in DOMAIN tasks
    /\ tasks[t].pc = "xread"
    /\ tasks' = [tasks EXCEPT ![t].pc = "loop", ![t].cursor = 0]
    /\ UNCHANGED <<subscribers, responses, chan, busCtxDone, cancel, wg,
                   stream, pipes, calls, running, recv,
                   handled, stopPc, panicked>>
    /\ UNCHANGED aside

\* Variant of AfterError: processStream returns.
AfterErrorReturn == "exit"

\* Where processStream is after deserializeMessage or the constructor
\* returned an error: logged, continue.
AfterError == "loop"

\* Variant of AfterDispatch: processMessage runs in a goroutine of its own
\* and the loop goes on.
AfterDispatchAsync == "loop"

\* Where processStream is once it has called processMessage: it waits for
\* the call to return.
AfterDispatch == "handle"

\* Variant of Dispatchable: one Handle at a time on the whole bus.
DispatchableSerial(t) == running = {}

\* processStream calls processMessage from its own goroutine: whether task t
\* may start a Handle depends on no other task.
Dispatchable(t) == TRUE

\* processStream: XRead returns one entry; deserializeMessage, then
\* constructor(transportReq.Properties); on an error of either log and
\* continue, otherwise processMessage is called and Handle begins.
XReadReturn(t, ctorOk) ==
    /\ panicked = "no"
    /\ t \in DOMAIN tasks
    /\ tasks[t].pc = "xread"
    /\ ~busCtxDone
    /\ Pending(tasks[t].stream, tasks[t].cursor) # {}
    /\ Dispatchable(t)
    /\ LET s == tasks[t].stream
           k == NextEntry(s, tasks[t].cursor)
           d == DeserializeMessage(XMessage(k, stream[s][k]))
       IN /\ recv' = [recv EXCEPT ![t] = Append(@, k)]
          /\ IF d.ok /\ ctorOk
             THEN /\ tasks' = [tasks EXCEPT ![t].pc = AfterDispatch,
                                 ![t].cursor = 0, ![t].id = k,
                                 ![t].req = d.req]
                  /\ running' = running \cup {<<t, k>>}
             ELSE /\ tasks' = [tasks EXCEPT ![t].pc = AfterError,
                                            ![t].cursor = 0]
                  /\ UNCHANGED running
    /\ UNCHANGED <<subscribers, responses, chan, busCtxDone, cancel, wg,
                   stream, pipes, calls, handled, stopPc, panicked>>
    /\ UNCHANGED aside

\* --------------------------------------------------------- processMessage

\* Variant of WantsReply: no test for a (nil, nil) return.
WantsReplyNoNilTest(req, h) == NeedsResponse(req)

\* Variant of WantsReply: no reply for a caller that waits no more.
WantsReplyIfWaiting(req, h) ==
    /\ NeedsResponse(req)
    /\ ~(h.data = "nil" /\ h.err = "nil")
    /\ req.i \in responses

\* processMessage: whether sendResponse is called for what Handle returned.
WantsReply(req, h) ==
    /\ NeedsResponse(req)
    /\ ~(h.data = "nil" /\ h.err = "nil")

\* sendResponse: the TransportResponse made of the handler's Response.
\* Result is set from Data in every case; Error and ErrorClass are set
\* when the error is not nil.
TransportResp(requestID, response) ==
    [req_id |-> requestID,
     result |-> response.data,
     error |-> IF response.err # "nil" THEN "message" ELSE "",
     error_class |-> IF response.err # "nil" THEN "type" ELSE ""]

\* TransportResponse.Encode: the CBOR map; result, error and error_class
\* carry omitempty.
Encode(transportResp) ==
    ("req_id" :> transportResp.req_id)
    @@ (IF transportResp.result # "nil"
        THEN "result" :> transportResp.result ELSE <<>>)
    @@ (IF transportResp.error # ""
        THEN "error" :> transportResp.error ELSE <<>>)
    @@ (IF transportResp.error_class # ""
        THEN "error_class" :> transportResp.error_class ELSE <<>>)

\* Variant of ReplyPipeline: the reply is pushed and the entry deleted,
\* the key gets no expiry.
ReplyPipelineNoExpire(t, s, requestID, redisMessageID, response, execOk) ==
    [task |-> t, resp |-> response, ok |-> execOk,
     cmds |-> <<[op |-> "RPUSH", key |-> requestID,
                 arg |-> Encode(TransportResp(requestID, response))],
                [op |-> "XDEL", key |-> s, arg |-> redisMessageID]>>]

\* sendResponse: the pipeline RPUSH key bytes, EXPIRE key 30s, XDEL stream
\* id, queued on one redis.Pipeline and sent by one Exec.
ReplyPipeline(t, s, requestID, redisMessageID, response, execOk) ==
    [task |-> t, resp |-> response, ok |-> execOk,
     cmds |-> <<[op |-> "RPUSH", key |-> requestID,
                 arg |-> Encode(TransportResp(requestID, response))],
                [op |-> "EXPIRE", key |-> requestID, arg |-> ReplyTTL],
                [op |-> "XDEL", key |-> s, arg |-> redisMessageID]>>]

\* Variant of EncodeReturned: the error of Encode is logged and
\* sendResponse goes on.
EncodeErrorIgnored(encOk) == TRUE

\* sendResponse: responseBytes, err := transportResp.Encode(); whether it
\* goes on to the pipeline (err == nil) or logs and returns.
EncodeReturned(encOk) == encOk

\* Variant of AfterExec: sendResponse returns when pipe.Exec failed.
AfterExecReturn(execOk) == IF execOk THEN "lookup" ELSE "loop"

\* sendResponse after pipe.Exec: an error is logged, and in either case the
\* local waiter is looked up next.
AfterExec(execOk) == "lookup"

\* processMessage: Handle returns h; then sendResponse up to pipe.Exec.
\* transportResp.Encode may fail (sendResponse returns); pipe.Exec may
\* fail (logged only).
ProcessMessage(t, h, encOk, execOk) ==
    /\ panicked = "no"
    /\ t \in DOMAIN tasks
    /\ tasks[t].pc = "handle"
    /\ running' = running \ {<<t, tasks[t].id>>}
    /\ handled' = handled \cup
           {[task |-> t, stream |-> tasks[t].stream, id |-> tasks[t].id,
             h |-> h, enc |-> encOk \/ ~WantsReply(tasks[t].req, h),
             by |-> tasks[t].ctor]}
    /\ LET s == tasks[t].stream
           req == tasks[t].req
           response == [data |-> h.data, err |-> h.err,
                        of |-> [task |-> t, stream |-> s, id |-> tasks[t].id]]
       IN IF WantsReply(req, h) /\ EncodeReturned(encOk)
          THEN /\ pipes' = pipes \cup
                     {ReplyPipeline(t, s, req.i, req.id, response, execOk)}
               /\ tasks' = [tasks EXCEPT ![t].pc = AfterExec(execOk),
                                         ![t].res = response]
          ELSE /\ tasks' = [tasks EXCEPT ![t].pc = "loop", ![t].id = 0,
                                         ![t].req = ZeroReq]
               /\ UNCHANGED pipes
    /\ UNCHANGED <<subscribers, responses, chan, busCtxDone, cancel, wg,
                   stream, calls, recv, stopPc, panicked>>
    /\ UNCHANGED aside

\* ----------------------------------------------------------- sendResponse

\* Variant of LookupWaiter: the waiter registered last, whatever its key.
LookupWaiterLatest(requestID) ==
    IF responses = {} THEN 0
    ELSE CHOOSE c \in responses : \A d \in responses : d <= c

\* sendResponse: responseCh, exists := b.responses[requestID]
LookupWaiter(requestID) == IF requestID \in responses THEN requestID ELSE 0

\* Variant of SendResponseLookup: the waiter found is taken out of the map.
SendResponseLookupTake(t) ==
    /\ panicked = "no"
    /\ t \in DOMAIN tasks
    /\ tasks[t].pc = "lookup"
    /\ responses' = responses \ {LookupWaiter(tasks[t].req.i)}
    /\ IF LookupWaiter(tasks[t].req.i) # 0
       THEN tasks' = [tasks EXCEPT ![t].pc = "send",
                                   ![t].ch = LookupWaiter(tasks[t].req.i)]
       ELSE tasks' = [tasks EXCEPT ![t].pc = "loop", ![t].id = 0,
                                   ![t].req = ZeroReq, ![t].res = NoRes]
    /\ UNCHANGED <<subscribers, chan, busCtxDone, cancel, wg,
                   stream, pipes, calls, running, recv,
                   handled, stopPc, panicked>>
    /\ UNCHANGED aside

\* sendResponse: the map lookup under responseMu.RLock.
SendResponseLookup(t) ==
    /\ panicked = "no"
    /\ t \in DOMAIN tasks
    /\ tasks[t].pc = "lookup"
    /\ IF LookupWaiter(tasks[t].req.i) # 0
       THEN tasks' = [tasks EXCEPT ![t].pc = "send",
                                   ![t].ch = LookupWaiter(tasks[t].req.i)]
       ELSE tasks' = [tasks EXCEPT ![t].pc = "loop", ![t].id = 0,
                                   ![t].req = ZeroReq, ![t].res = NoRes]
    /\ UNCHANGED <<subscribers, responses, chan, busCtxDone, cancel, wg,
                   stream, pipes, calls, running, recv,
                   handled, stopPc, panicked>>
    /\ UNCHANGED aside

\* sendResponse: select { case responseCh <- response; case <-time.After(5s) }
\* after the lock was released.  A send on a closed channel panics; with
\* the buffer full the 5 s timer fires.
SendResponseSend(t) ==
    /\ t \in DOMAIN tasks
    /\ panicked = "no"
    /\ tasks[t].pc = "send"
    /\ LET c == tasks[t].ch
       IN IF ~chan[c].open
          THEN /\ Panic("send on closed channel")
               /\ UNCHANGED stopPc
          ELSE /\ chan' = IF Len(chan[c].buf) < ChanCap
                          THEN [chan EXCEPT ![c].buf = Append(@, tasks[t].res)]
                          ELSE chan
               /\ tasks' = [tasks EXCEPT ![t].pc = "loop", ![t].id = 0,
                               ![t].req = ZeroReq, ![t].res = NoRes, ![t].ch = 0]
               /\ UNCHANGED <<subscribers, responses, busCtxDone, cancel, wg,
                              stream, pipes, calls, running, recv,
                              handled, stopPc,
                              panicked>>
    /\ UNCHANGED aside

\* ------------------------------------------------------------------- Stop

\* Bus.Stop: b.cancel(); b.wg.Wait().  Calling a nil func panics.
Stop ==
    /\ panicked = "no"
    /\ stopPc = "idle"
    /\ IF cancel = "nil"
       THEN /\ Panic("nil func call")
            /\ stopPc' = "panicked"
       ELSE /\ busCtxDone' = TRUE
            /\ stopPc' = IF wg = 0 THEN "returned" ELSE "wait"
            /\ UNCHANGED <<subscribers, responses, chan, cancel, wg, stream,
                           pipes, calls, tasks, running, recv, handled,
                           panicked>>
    /\ UNCHANGED aside

\* The owner of the context given to NewBus cancels it.
CancelBusCtx ==
    /\ panicked = "no"
    /\ ~busCtxDone
    /\ busCtxDone' = TRUE
    /\ UNCHANGED <<subscribers, responses, chan, cancel, wg, stream, pipes,
                   calls, tasks, running, recv, handled, stopPc, panicked>>
    /\ UNCHANGED aside

\* ------------------------------------------------------------------- Next

Next ==
    \/ \E s \in Streams, k \in Constructors : Register(s, k)
    \/ \E c \in Calls, s \in Streams, serOk \in BOOLEAN : ExecuteBegin(c, s, serOk)
    \/ \E c \in Calls, xaddOk \in BOOLEAN : ExecuteXAdd(c, xaddOk)
    \/ \E c \in Calls : ExecuteRecv(c)
    \/ \E c \in Calls : ExecuteCtxDone(c)
    \/ \E c \in Calls : ExecuteTimeout(c)
    \/ \E c \in Calls : ExecuteCleanup(c)
    \/ \E c \in Calls : CancelCtx(c)
    \/ \E c \in Calls, s \in Streams, serOk, xaddOk \in BOOLEAN :
           Emit(c, s, serOk, xaddOk)
    \/ \E c \in Calls, s \in Streams : PeerAdd(c, s)
    \/ Run
    \/ \E t \in TaskIds : ProcessStreamStart(t)
    \/ \E t \in TaskIds : XReadIssue(t)
    \/ \E t \in TaskIds : XReadError(t)
    \/ \E t \in TaskIds, ctorOk \in BOOLEAN : XReadReturn(t, ctorOk)
    \/ \E t \in TaskIds, h \in HandleResults, encOk, execOk \in BOOLEAN :
           ProcessMessage(t, h, encOk, execOk)
    \/ \E t \in TaskIds : SendResponseLookup(t)
    \/ \E t \in TaskIds : SendResponseSend(t)
    \/ Stop
    \/ CancelBusCtx

Spec == Init /\ [][Next]_vars

\* ------------------------------------------------------------ two streams
\* The bus with a consumer task per stream: Register, Run, Execute calls
\* that wait for their reply, and consumer tasks whose Redis calls succeed.

PairTaskIds == 1..PairTasks

PairNext ==
    \/ \E s \in Streams, k \in Constructors : Register(s, k)
    \/ \E c \in Calls, s \in Streams : ExecuteBegin(c, s, TRUE)
    \/ \E c \in Calls : ExecuteXAdd(c, TRUE)
    \/ \E c \in Calls : ExecuteRecv(c)
    \/ \E c \in Calls : ExecuteCleanup(c)
    \/ RunUpTo(PairTasks)
    \/ \E t \in PairTaskIds : ProcessStreamStart(t)
    \/ \E t \in PairTaskIds : XReadIssue(t)
    \/ \E t \in PairTaskIds : XReadReturn(t, TRUE)
    \/ \E t \in PairTaskIds, h \in HandleResults :
           ProcessMessage(t, h, TRUE, TRUE)
    \/ \E t \in PairTaskIds : SendResponseLookup(t)
    \/ \E t \in PairTaskIds : SendResponseSend(t)

PairSpec == Init /\ [][PairNext]_vars

\* ------------------------------------------------- registration and Run
\* The bus of one stream whose callers register two different constructors,
\* before and after Run.

LateConstructors == {"k1", "k2"}
LateStreams == {"A"}

LateNext ==
    \/ \E s \in LateStreams, k \in LateConstructors : Register(s, k)
    \/ \E c \in Calls, s \in LateStreams : ExecuteBegin(c, s, TRUE)
    \/ \E c \in Calls : ExecuteXAdd(c, TRUE)
    \/ \E c \in Calls : ExecuteRecv(c)
    \/ \E c \in Calls : ExecuteCleanup(c)
    \/ Run
    \/ \E t \in TaskIds : ProcessStreamStart(t)
    \/ \E t \in TaskIds : XReadIssue(t)
    \/ \E t \in TaskIds : XReadReturn(t, TRUE)
    \/ \E t \in TaskIds, h \in HandleResults :
           ProcessMessage(t, h, TRUE, TRUE)
    \/ \E t \in TaskIds : SendResponseLookup(t)
    \/ \E t \in TaskIds : SendResponseSend(t)

LateSpec == Init /\ [][LateNext]_vars

\* ================================================================ codecs
\* One TransportRequest taken through Serialize, Deserialize and the two
\* ingress dialects; or one stream entry taken through what processStream
\* does with it: deserializeMessage, processMessage, sendResponse.  The bus
\* is otherwise at rest.

\* The requests the codecs are given.
Requests ==
    [id : {0, 9}, c : {0 - 15, 0, 15, 20}, i : {0, 7}, m : {<<>>, <<"a0">>},
     p : {<<>>, Payload}, r : {0 - 1, 0, 1, 2}, t : {0 - 1, 0, 5, DefaultTimeout}]

\* The ids the broker gives to the entries read.
EntryIDs == {3}

\* A field map without some of its keys.
Without(values, keys) == [k \in DOMAIN values \ keys |-> values[k]]

\* Field maps as a peer's Serialize makes them.
FlatSamples ==
    {Serialize(q) : q \in {x \in Requests :
        /\ x.id = 0 /\ x.p = Payload /\ x.c \in {0, 15}
        /\ x.t \in {0, 5}}}

\* Field maps with a value of a wrong type or format.
BadSamples ==
    {("r" :> Str(<<"x">>)) @@ f : f \in FlatSamples}
    \cup {("r" :> Other(<<"1">>)) @@ f : f \in FlatSamples}
    \cup {("i" :> Other(7)) @@ f : f \in FlatSamples}
    \cup {("m" :> Bytes(<<"a0">>)) @@ f : f \in FlatSamples}

\* The requests a peer puts in a blob, whole or with keys left out.
BlobSamples ==
    LET whole == {x \in Requests :
                    /\ x.i = 7 /\ x.p = Payload /\ x.c = 15 /\ x.m = <<>>
                    /\ x.r \in {0, 1} /\ x.t \in {0, 5}}
    IN {Blob(q) : q \in whole}
       \cup {Blob(Without(q, {"id", "t"})) : q \in whole}
       \cup {Blob(Without(q, {"i"})) : q \in whole}

\* What a peer can put under the key data.
DataSamples ==
    {Str(b) : b \in BlobSamples} \cup {Bytes(b) : b \in BlobSamples}
    \cup {Other(b) : b \in BlobSamples} \cup {Str(Garbage), Bytes(Garbage)}

\* The stream entries the consumer is given: field maps with any of the
\* required keys left out, with or without a data field.
Entries ==
    LET flats == {Without(f, D) : f \in FlatSamples \cup BadSamples,
                                  D \in SUBSET {"i", "r", "p"}}
    IN {XMessage(id, f) : id \in EntryIDs, f \in flats}
       \cup {XMessage(id, ("data" :> d) @@ f) :
                 id \in EntryIDs, d \in DataSamples, f \in flats}

CodecInit ==
    /\ NewBus
    /\ factory = FactoryOff /\ registry = RegistryOff
    /\ \/ \E q \in Requests :
             codec = [CodecOff EXCEPT !.pc = "request", !.req = q]
       \/ \E e \in Entries, s \in Streams :
             codec = [CodecOff EXCEPT !.pc = "entry", !.msg = e, !.stream = s]

\* b.serializer.Serialize(&transportReq)
DoSerialize ==
    /\ codec.pc = "request"
    /\ codec' = [codec EXCEPT !.pc = "serialized", !.flat = Serialize(codec.req)]
    /\ UNCHANGED <<busVars, factory, registry>>

\* b.serializer.Deserialize of the field map Serialize made.
DoDeserialize ==
    /\ codec.pc = "serialized"
    /\ codec' = [codec EXCEPT !.pc = "deserialized",
                              !.back = Deserialize(codec.flat)]
    /\ UNCHANGED <<busVars, factory, registry>>

\* deserializeMessage of the request as a blob under data (Dialect A) and
\* as the flat field map (Dialect B), read as the same entry.
DoDialects(id) ==
    /\ codec.pc = "deserialized"
    /\ codec' = [codec EXCEPT
          !.pc = "read",
          !.viaA = DeserializeMessage(
                       XMessage(id, "data" :> Bytes(Blob(codec.req)))),
          !.viaB = DeserializeMessage(XMessage(id, codec.flat))]
    /\ UNCHANGED <<busVars, factory, registry>>

\* b.serializer.Deserialize of the fields of the entry.
DoDeserializeFlat ==
    /\ codec.pc = "entry"
    /\ codec' = [codec EXCEPT !.pc = "flatread",
                              !.back = Deserialize(codec.msg.values)]
    /\ UNCHANGED <<busVars, factory, registry>>

\* processStream: deserializeMessage(msg); on an error log and continue.
DoDeserializeMessage ==
    /\ codec.pc = "flatread"
    /\ LET d == DeserializeMessage(codec.msg)
       IN codec' = [codec EXCEPT !.got = d,
                       !.pc = IF d.ok THEN "decoded" ELSE "dropped"]
    /\ UNCHANGED <<busVars, factory, registry>>

\* processMessage and sendResponse for the decoded request, up to
\* pipe.Exec.
DoProcessMessage(h, encOk, execOk) ==
    /\ codec.pc = "decoded"
    /\ LET req == codec.got.req
           response == [data |-> h.data, err |-> h.err,
                        of |-> [task |-> 1, stream |-> codec.stream,
                                id |-> codec.msg.id]]
       IN codec' = [codec EXCEPT
             !.pc = "handled", !.h = h, !.enc = encOk,
             !.pipe = IF WantsReply(req, h) /\ encOk
                      THEN {ReplyPipeline(1, codec.stream, req.i, req.id,
                                          response, execOk)}
                      ELSE {}]
    /\ UNCHANGED <<busVars, factory, registry>>

CodecNext ==
    \/ DoSerialize
    \/ DoDeserialize
    \/ \E id \in EntryIDs : DoDialects(id)
    \/ DoDeserializeFlat
    \/ DoDeserializeMessage
    \/ \E h \in HandleResults, encOk, execOk \in BOOLEAN :
           DoProcessMessage(h, encOk, execOk)

CodecSpec == CodecInit /\ [][CodecNext]_vars

\* ======================================================== HandlerFactory
\* One HandlerFactory and the calls made on it, one after the other (every
\* method holds f.mu while it touches the maps).  A Go map is a function on
\* the set of its keys.

HandlerConstructors == {"k1", "k2"}
\* The repositories a caller registers; "nil" is the nil interface value.
Repositories == {"repo1", "nil"}
\* The payload bytes handed to CreateHandler.
Payloads == {Payload, <<>>}
\* What a HandlerConstructor returns: (Subscriber, error).
ConstructorResults == {[sub |-> "handler", err |-> "nil"],
                       [sub |-> "nil", err |-> "decode"]}

\* Variant of PutConstructor: a stream keeps its first constructor.
PutConstructorOnce(constructors, streamName, constructor) ==
    IF streamName \in DOMAIN constructors THEN constructors
    ELSE (streamName :> constructor) @@ constructors

\* RegisterHandler: f.constructors[streamName] = constructor
PutConstructor(constructors, streamName, constructor) ==
    (streamName :> constructor) @@ constructors

\* RegisterRepository: f.repositories[streamName] = repo
PutRepository(repositories, streamName, repo) ==
    (streamName :> repo) @@ repositories

\* Variant of CreateHandler: a stream without a repository has no handler.
CreateHandlerNeedsRepo(f, streamName, data, made) ==
    IF streamName \notin DOMAIN f.constructors
          \/ streamName \notin DOMAIN f.repositories
    THEN [NoCreated EXCEPT !.streamName = streamName,
             !.err = "no handler constructor registered for stream"]
    ELSE [streamName |-> streamName, err |-> "",
          called |-> <<[constructor |-> f.constructors[streamName],
                        data |-> data,
                        repo |-> f.repositories[streamName]]>>,
          sub |-> made.sub, suberr |-> made.err]

\* HandlerFactory.CreateHandler: both lookups, the error when there is no
\* constructor, else constructor(data, repo) with repo the zero value (nil)
\* when the stream has none; made is what the constructor returns.
CreateHandler(f, streamName, data, made) ==
    IF streamName \notin DOMAIN f.constructors
    THEN [NoCreated EXCEPT !.streamName = streamName,
             !.err = "no handler constructor registered for stream"]
    ELSE [streamName |-> streamName, err |-> "",
          called |-> <<[constructor |-> f.constructors[streamName],
                        data |-> data,
                        repo |-> IF streamName \in DOMAIN f.repositories
                                 THEN f.repositories[streamName]
                                 ELSE "nil"]>>,
          sub |-> made.sub, suberr |-> made.err]

\* HandlerFactory.HasHandler
HasHandler(f, streamName) == streamName \in DOMAIN f.constructors

\* Variant of StreamKeys: the streams of either map.
StreamKeysBoth(f) == DOMAIN f.constructors \cup DOMAIN f.repositories

\* HandlerFactory.GetStreams: the keys of f.constructors ...
StreamKeys(f) == DOMAIN f.constructors

\* ... appended in the iteration order of the map, which Go leaves open.
Orders(S) ==
    {q \in [1..Cardinality(S) -> S] :
        \A a, b \in 1..Cardinality(S) : q[a] = q[b] => a = b}

\* The record of a call: what was asked, and the maps before it.
FactoryCall(op, streamName, arg) ==
    [NoFactoryCall EXCEPT !.op = op, !.streamName = streamName, !.arg = arg,
                          !.constructors = factory.constructors,
                          !.repositories = factory.repositories]

FactoryInit ==
    /\ NewBus
    /\ codec = CodecOff /\ registry = RegistryOff
    /\ factory = NewHandlerFactory

RegisterHandler(streamName, constructor) ==
    /\ factory.on
    /\ factory' = [factory EXCEPT
          !.constructors = PutConstructor(@, streamName, constructor),
          !.latest[streamName] = constructor,
          !.last = FactoryCall("RegisterHandler", streamName, constructor)]
    /\ UNCHANGED <<busVars, codec, registry>>

RegisterRepository(streamName, repo) ==
    /\ factory.on
    /\ factory' = [factory EXCEPT
          !.repositories = PutRepository(@, streamName, repo),
          !.latestRepo[streamName] = repo,
          !.last = FactoryCall("RegisterRepository", streamName, repo)]
    /\ UNCHANGED <<busVars, codec, registry>>

CallCreateHandler(streamName, data, made) ==
    /\ factory.on
    /\ factory' = [factory EXCEPT
          !.last = [FactoryCall("CreateHandler", streamName, data) EXCEPT
                       !.made = made,
                       !.created = CreateHandler(factory, streamName, data,
                                                 made)]]
    /\ UNCHANGED <<busVars, codec, registry>>

CallHasHandler(streamName) ==
    /\ factory.on
    /\ factory' = [factory EXCEPT
          !.last = [FactoryCall("HasHandler", streamName, "") EXCEPT
                       !.has = HasHandler(factory, streamName)]]
    /\ UNCHANGED <<busVars, codec, registry>>

CallGetStreams ==
    /\ factory.on
    /\ \E q \in Orders(StreamKeys(factory)) :
          factory' = [factory EXCEPT
              !.last = [FactoryCall("GetStreams", "", "") EXCEPT
                           !.streams = q]]
    /\ UNCHANGED <<busVars, codec, registry>>

FactoryNext ==
    \/ \E s \in Streams, k \in HandlerConstructors : RegisterHandler(s, k)
    \/ \E s \in Streams, r \in Repositories : RegisterRepository(s, r)
    \/ \E s \in Streams, data \in Payloads, made \in ConstructorResults :
           CallCreateHandler(s, data, made)
    \/ \E s \in Streams : CallHasHandler(s)
    \/ CallGetStreams

FactorySpec == FactoryInit /\ [][FactoryNext]_vars

\* ===================================================== subscribers and mu
\* Bus.Register, Bus.Run and processStream as far as they touch
\* b.subscribers and b.mu, one step per lock operation and per begin and
\* end of a map access.

\* processStream: constructor := b.subscribers[streamName], no lock taken.
LocksOfProcessStream == {}

RegistryInit ==
    /\ NewBus
    /\ codec = CodecOff /\ factory = FactoryOff
    /\ registry = NewRegistry

\* Register: b.mu.Lock()
RegisterLock(r, s) ==
    /\ registry.on
    /\ registry.register[r].pc = "idle"
    /\ registry.writer = "none" /\ registry.readers = {}
    /\ registry' = [registry EXCEPT !.writer = r,
                       !.register[r] = [pc |-> "locked", stream |-> s]]
    /\ UNCHANGED <<busVars, codec, factory>>

\* Register: b.subscribers[streamName] = constructor begins.  A read that
\* is under way at that moment races with it.
RegisterWrite(r) ==
    /\ registry.on
    /\ registry.register[r].pc = "locked"
    /\ registry' = [registry EXCEPT
          !.register[r].pc = "writing",
          !.access = @ \cup {[who |-> r, kind |-> "write"]},
          !.task = [s \in Streams |->
                       IF registry.task[s].pc = "reading"
                       THEN [registry.task[s] EXCEPT !.raced = TRUE]
                       ELSE registry.task[s]]]
    /\ UNCHANGED <<busVars, codec, factory>>

\* Register: the map assignment is done.
RegisterWritten(r) ==
    /\ registry.on
    /\ registry.register[r].pc = "writing"
    /\ registry' = [registry EXCEPT
          !.register[r].pc = "written",
          !.map = @ \cup {registry.register[r].stream},
          !.access = @ \ {[who |-> r, kind |-> "write"]}]
    /\ UNCHANGED <<busVars, codec, factory>>

\* Register: the deferred b.mu.Unlock()
RegisterUnlock(r) ==
    /\ registry.on
    /\ registry.register[r].pc = "written"
    /\ registry' = [registry EXCEPT !.writer = "none",
                       !.register[r] = [pc |-> "idle", stream |-> ""]]
    /\ UNCHANGED <<busVars, codec, factory>>

\* Run: b.mu.RLock()
RunRLock ==
    /\ registry.on
    /\ registry.run.pc = "idle"
    /\ registry.writer = "none"
    /\ registry' = [registry EXCEPT !.readers = @ \cup {"Run"},
                                    !.run.pc = "rlocked"]
    /\ UNCHANGED <<busVars, codec, factory>>

\* Run: len(b.subscribers) and the range over the map begin.
RunRead ==
    /\ registry.on
    /\ registry.run.pc = "rlocked"
    /\ registry' = [registry EXCEPT !.run.pc = "reading",
          !.access = @ \cup {[who |-> "Run", kind |-> "read"]}]
    /\ UNCHANGED <<busVars, codec, factory>>

\* Run: the streams list is built.
RunReadEnd ==
    /\ registry.on
    /\ registry.run.pc = "reading"
    /\ registry' = [registry EXCEPT
          !.run = [pc |-> "read", streams |-> registry.map],
          !.access = @ \ {[who |-> "Run", kind |-> "read"]}]
    /\ UNCHANGED <<busVars, codec, factory>>

\* Run: b.mu.RUnlock(); with no stream it returns, otherwise it starts a
\* goroutine per stream and returns.
RunRUnlock ==
    /\ registry.on
    /\ registry.run.pc = "read"
    /\ registry' = [registry EXCEPT
          !.readers = @ \ {"Run"},
          !.run = [pc |-> IF registry.run.streams = {} THEN "idle"
                          ELSE "returned",
                   streams |-> {}],
          !.task = [s \in Streams |->
                       IF s \in registry.run.streams
                       THEN [registry.task[s] EXCEPT !.pc = "ready"]
                       ELSE registry.task[s]]]
    /\ UNCHANGED <<busVars, codec, factory>>

\* processStream: the read of b.subscribers[streamName] begins, holding
\* what LocksOfProcessStream says.  It races with a write under way.
ProcessStreamRead(s) ==
    /\ registry.on
    /\ registry.task[s].pc = "ready"
    /\ "RLock" \in LocksOfProcessStream => registry.writer = "none"
    /\ registry' = [registry EXCEPT
          !.task[s].pc = "reading",
          !.task[s].raced = \E x \in registry.access : x.kind = "write",
          !.readers = IF "RLock" \in LocksOfProcessStream
                      THEN @ \cup {s} ELSE @,
          !.access = @ \cup {[who |-> s, kind |-> "read"]}]
    /\ UNCHANGED <<busVars, codec, factory>>

\* processStream: the read ends.  Without a race it yields the constructor
\* of the stream; a read that raced with a write yields that, or nil, or
\* ends the process (fatal error: concurrent map read and map write).
ProcessStreamReadEnd(s, outcome) ==
    /\ registry.on
    /\ registry.task[s].pc = "reading"
    /\ registry.task[s].raced \/ outcome = "constructor"
    /\ registry' = [registry EXCEPT
          !.task[s].pc = "done",
          !.task[s].got = outcome,
          !.readers = @ \ {s},
          !.access = @ \ {[who |-> s, kind |-> "read"]}]
    /\ UNCHANGED <<busVars, codec, factory>>

RegistryNext ==
    \/ \E r \in Registrars, s \in Streams : RegisterLock(r, s)
    \/ \E r \in Registrars : RegisterWrite(r)
    \/ \E r \in Registrars : RegisterWritten(r)
    \/ \E r \in Registrars : RegisterUnlock(r)
    \/ RunRLock
    \/ RunRead
    \/ RunReadEnd
    \/ RunRUnlock
    \/ \E s \in Streams : ProcessStreamRead(s)
    \/ \E s \in Streams, outcome \in {"constructor", "nil", "fatal"} :
           ProcessStreamReadEnd(s, outcome)

RegistrySpec == RegistryInit /\ [][RegistryNext]_vars

\* ================================================================ claims

\* The envelope of the stream entry a response was built for.
EntryOf(resp) == Entry(resp.of.stream, resp.of.id)

\* The Execute calls that registered a waiter (serialization succeeded).
Registered(c) ==
    /\ calls[c].kind = "execute"
    /\ calls[c].outcome # "serialize_error"

\* C1: correlation.  Whenever an Execute call has taken a response from its
\* waiter channel, that response was built from the Handle result of a
\* stream entry whose envelope carries this call's own requestID.
C1_Correlation ==
    \A c \in Calls :
        calls[c].outcome = "response" =>
            /\ calls[c].resp.of.stream \in Streams
            /\ calls[c].resp.of.id \in 1..Len(stream[calls[c].resp.of.stream])
            /\ EntryOf(calls[c].resp).i = c
            /\ EntryOf(calls[c].resp).r = 1

\* Two Execute calls were in flight together and one has returned a response.
C1_Witness ==
    \E c, d \in Calls :
        /\ c # d
        /\ calls[c].pc = "done" /\ calls[c].outcome = "response"
        /\ calls[d].kind = "execute" /\ calls[d].pc \in {"select", "cleanup"}

\* C2: the consumer never sends on a waiter channel that has been closed
\* (no "send on closed channel" panic), in any interleaving of Execute's
\* return with sendResponse.
C2_NoSendOnClosed == panicked # "send on closed channel"

\* C3: waiter lifecycle.  While an Execute call is between registration and
\* its deferred cleanup its requestID is in the registry with an open
\* channel; once it has returned the registry holds no entry for it and the
\* channel has been closed exactly once; a call that registered nothing has
\* no channel; with every call returned the registry is empty.
C3_WaiterLifecycle ==
    /\ \A c \in Calls :
          /\ (Registered(c) /\ calls[c].pc \in {"xadd", "select", "cleanup"})
                => (c \in responses /\ chan[c].open /\ chan[c].closes = 0)
          /\ (Registered(c) /\ calls[c].pc = "done")
                => (c \notin responses /\ ~chan[c].open /\ chan[c].closes = 1)
          /\ ~Registered(c) => (c \notin responses /\ chan[c] = NoChan)
    /\ (\A c \in Calls : calls[c].pc \in {"idle", "done"}) => responses = {}

\* Two Execute calls have returned, one with a response and one without.
C3_Witness ==
    \E c, d \in Calls :
        /\ calls[c].pc = "done" /\ calls[c].outcome = "response"
        /\ calls[d].pc = "done"
        /\ calls[d].outcome \in {"timeout", "cancelled", "xadd_error"}
        /\ chan[c].closes = 1 /\ chan[d].closes = 1

\* The entry ids a task received, as a set.
Received(t) == {recv[t][n] : n \in 1..Len(recv[t])}

\* Task t has issued an XREAD whose cursor is at or after entry k: no XREAD
\* of t returns k any more.
Passed(t, k) == tasks[t].pc = "xread" /\ tasks[t].cursor >= k

\* C4: every envelope appended to a stream while its consumer task is
\* running is consumed by that task exactly once.  Stated for the entries
\* that came after the first one the task received (so the task was
\* running), that are still in the stream, and that the task's cursor has
\* gone past: each is among the entries the task received, and no entry is
\* received twice.
C4_ConsumedExactlyOnce ==
    \A t \in DOMAIN tasks :
        /\ \A m, n \in 1..Len(recv[t]) : m # n => recv[t][m] # recv[t][n]
        /\ \A k \in 1..Len(stream[tasks[t].stream]) :
              ( /\ recv[t] # <<>>
                /\ k > recv[t][1]
                /\ <<tasks[t].stream, k>> \notin Deleted
                /\ Passed(t, k) ) => k \in Received(t)

\* C5: per-stream ordering.  A task receives entries in increasing id
\* (broker) order; at most one Handle invocation of a task is in flight;
\* while Handle or the response dispatch for an entry is under way the
\* task is at that entry, which is the last one it received, so Handle for
\* the next entry starts only after the dispatch of this one is over.
C5_PerStreamOrdering ==
    \A t \in DOMAIN tasks :
        /\ \A m, n \in 1..Len(recv[t]) : m < n => recv[t][m] < recv[t][n]
        /\ Cardinality({r \in running : r[1] = t}) <= 1
        /\ \A r \in running :
              r[1] = t => (tasks[t].pc = "handle" /\ tasks[t].id = r[2])
        /\ tasks[t].pc = "handle" => <<t, tasks[t].id>> \in running
        /\ tasks[t].pc \in {"handle", "lookup", "send"}
              => (recv[t] # <<>> /\ tasks[t].id = recv[t][Len(recv[t])])
        /\ \A x \in handled : x.task = t => x.id \in Received(t)

\* A task is in Handle for the second entry it received, the first handled.
C5_Witness ==
    \E t \in DOMAIN tasks :
        /\ Len(recv[t]) >= 2
        /\ <<t, recv[t][2]>> \in running
        /\ \E x \in handled : x.task = t /\ x.id = recv[t][1]

\* C6: a Stop call on a bus that Run has started consumer tasks for cancels
\* the bus context, returns with every one of those tasks terminated, and
\* does not abort.
C6_StopReturns ==
    [][(stopPc = "idle" /\ stopPc' # "idle" /\ tasks # <<>>)
          => /\ panicked' = "no"
             /\ stopPc' = "returned"
             /\ busCtxDone'
             /\ DOMAIN tasks' = DOMAIN tasks
             /\ \A t \in DOMAIN tasks : tasks'[t].pc = "exited"]_vars

\* C7: once the bus context is cancelled, a consumer task whose XREAD
\* returns leaves its loop: it does not go back to issue another XREAD;
\* the cancellation itself moves no task (a Handle in flight goes on).
C7_CancelEndsConsumer ==
    [][/\ \A t \in DOMAIN tasks :
             (busCtxDone /\ tasks[t].pc = "xread" /\ t \in DOMAIN tasks')
                 => tasks'[t].pc \in {"xread", "exited"}
       /\ (~busCtxDone /\ busCtxDone')
             => (tasks' = tasks /\ running' = running)]_vars

\* Stream s has a consumer task.
HasConsumer(s) == \E t \in DOMAIN tasks : tasks[t].stream = s

\* C8: timeout bound.  An Execute that waits in its select on a stream
\* with no consumer, its context not cancelled, eventually returns the
\* timeout error (unless a consumer appears or the context is cancelled).
C8_TimeoutBound ==
    \A c \in Calls :
        (calls[c].pc = "select" /\ ~HasConsumer(calls[c].stream))
            ~> \/ calls[c].pc = "done" /\ calls[c].outcome = "timeout"
               \/ calls[c].ctxDone
               \/ HasConsumer(calls[c].stream)

\* Task x.task has done nothing towards a reply for the Handle return x:
\* no pipeline (RPUSH, EXPIRE, XDEL) of that task names the entry, and no
\* response built from it is held by the task, a channel or a caller.
NoReplyFor(x) ==
    LET origin == [task |-> x.task, stream |-> x.stream, id |-> x.id]
    IN /\ \A p \in pipes :
             ~(p.task = x.task /\ <<x.stream, x.id>> \in XDelOf(p))
       /\ \A p \in pipes : p.resp.of # origin
       /\ tasks[x.task].res.of # origin
       /\ \A c \in Calls :
             /\ calls[c].resp.of # origin
             /\ \A n \in 1..Len(chan[c].buf) : chan[c].buf[n].of # origin

\* C9: response suppression.  For a Handle invocation that returned
\* (nil, nil) on an envelope with returnResult = 1, the consumer issues no
\* RPUSH, EXPIRE or XDEL and delivers nothing to a waiter.
C9_ResponseSuppression ==
    \A x \in handled :
        ( /\ x.h.data = "nil" /\ x.h.err = "nil"
          /\ Entry(x.stream, x.id).r = 1 ) => NoReplyFor(x)

\* Handle returned (nil, nil) for an Execute's envelope, whose caller is
\* still waiting.
C9_Witness ==
    \E x \in handled :
        /\ x.h.data = "nil" /\ x.h.err = "nil"
        /\ Entry(x.stream, x.id).r = 1
        /\ calls[Entry(x.stream, x.id).i].pc = "select"

\* C10: fire-and-forget.  Emit registers no waiter and is over once XADD
\* returned; for an envelope with returnResult = 0 the consumer, whatever
\* Handle returned, issues no RPUSH, EXPIRE or XDEL: no pipeline names such
\* an entry and no reply key is made for an Emit's requestID.
C10_FireAndForget ==
    /\ \A c \in Calls :
          calls[c].kind = "emit" =>
              /\ calls[c].pc = "done"
              /\ c \notin responses /\ chan[c] = NoChan
              /\ \A p \in pipes : c \notin RPushKeys(p)
    /\ \A x \in handled : Entry(x.stream, x.id).r = 0 => NoReplyFor(x)
    /\ \A p \in pipes : \A e \in XDelOf(p) : Entry(e[1], e[2]).r = 1

\* Handle returned both a result and an error for an emitted envelope.
C10_Witness ==
    \E x \in handled :
        /\ Entry(x.stream, x.id).r = 0
        /\ x.h.data = "res" /\ x.h.err = "err"
        /\ calls[Entry(x.stream, x.id).i].kind = "emit"

\* The encoded replies the bus has put in RPUSH commands, with the Response
\* each was made of.
Pushed ==
    UNION {{[value |-> p.cmds[j].arg, key |-> p.cmds[j].key, resp |-> p.resp] :
               j \in {n \in DOMAIN p.cmds : p.cmds[n].op = "RPUSH"}} :
           p \in pipes}

\* C11: every reply the bus pushes carries exactly one of: result, or error
\* together with error_class.  When Handle returned an error the reply has
\* error and error_class and no result, also when Handle returned a result
\* with it; when Handle returned no error it has result and no error field.
C11_ResultXorError ==
    \A x \in Pushed :
        LET hasResult == "result" \in DOMAIN x.value
            hasError == /\ "error" \in DOMAIN x.value
                        /\ "error_class" \in DOMAIN x.value
        IN /\ hasResult # hasError
           /\ x.resp.err # "nil" => (hasError /\ ~hasResult)
           /\ x.resp.err = "nil" => (hasResult /\ ~hasError)

\* The positions of the commands of one kind in a pipeline.
CmdsOf(p, op) == {n \in DOMAIN p.cmds : p.cmds[n].op = op}

CarriedID(msg) ==
    IF "data" \in DOMAIN msg.values
    THEN IF "i" \in DOMAIN msg.values["data"].v.map
         THEN msg.values["data"].v.map["i"] ELSE 0
    ELSE msg.values["i"].v

\* C13: in both ingress dialects the decoded request has the broker's entry
\* id as redisMessageID, whatever id a blob carries; and the reply pipeline
\* for it names the requestID the entry carries as key of RPUSH and EXPIRE,
\* and the stream the entry was read from with that entry id in XDEL.
C13_ReplyTargets ==
    codec.pc \in {"decoded", "handled"} =>
        /\ codec.got.req.id = codec.msg.id
        /\ \A p \in codec.pipe :
              /\ RPushKeys(p) = {CarriedID(codec.msg)}
              /\ {p.cmds[n].key : n \in CmdsOf(p, "EXPIRE")}
                     = {CarriedID(codec.msg)}
              /\ XDelOf(p) = {<<codec.stream, codec.msg.id>>}

\* A reply pipeline was issued for a blob entry whose blob carries an id
\* other than the entry id.
C13_Witness ==
    /\ codec.pc = "handled"
    /\ codec.pipe # {}
    /\ "data" \in DOMAIN codec.msg.values
    /\ "id" \in DOMAIN codec.msg.values["data"].v.map
    /\ codec.msg.values["data"].v.map["id"] # codec.msg.id
    /\ codec.msg.values["data"].v.map["id"] # 0

\* The entries that carry the requestID of call c.
EntriesOf(c) ==
    {e \in Streams \X (1..MaxCalls) :
        e[2] <= Len(stream[e[1]]) /\ Entry(e[1], e[2]).i = c}

\* C14: cancelling the context given to Execute makes the call return the
\* context-cancelled error and does not reach the consumer: a Handle return
\* for the entry of a cancelled call is answered as any other, by a reply
\* pipeline under the call's requestID with the 30 s expiry, and the call
\* that returned the error received no response (the reply is an orphan).
C14_CancelLeavesHandler ==
    \A c \in Calls :
        /\ calls[c].outcome = "cancelled" =>
              /\ calls[c].ctxDone
              /\ calls[c].resp = NoRes
              /\ \A d \in Calls : \A e \in EntriesOf(c) :
                     ~(calls[d].resp.of.stream = e[1] /\ calls[d].resp.of.id = e[2])
        /\ (calls[c].kind = "execute" /\ calls[c].ctxDone) =>
              \A x \in handled :
                  ( /\ <<x.stream, x.id>> \in EntriesOf(c)
                    /\ ~(x.h.data = "nil" /\ x.h.err = "nil")
                    /\ x.enc )
                  => \E p \in pipes :
                        /\ p.resp.of = [task |-> x.task, stream |-> x.stream,
                                        id |-> x.id]
                        /\ RPushKeys(p) = {c}
                        /\ \E n \in CmdsOf(p, "EXPIRE") :
                               p.cmds[n].key = c /\ p.cmds[n].arg = 30

\* Execute has returned the context-cancelled error and removed its waiter;
\* the consumer has executed the reply pipeline for its entry and is about
\* to look for a waiter.
C14_Witness ==
    \E c \in Calls : \E t \in DOMAIN tasks :
        /\ calls[c].pc = "done" /\ calls[c].outcome = "cancelled"
        /\ c \notin responses
        /\ tasks[t].pc = "lookup" /\ tasks[t].req.i = c
        /\ \E p \in pipes : p.ok /\ RPushKeys(p) = {c} /\ p.task = t

\* C15: Execute stores its waiter before it issues XADD: while the call has
\* not appended, nothing carries its requestID (no entry, no reply), and
\* when XADD is issued the waiter is in the map.  A response returned by
\* Execute is the result of a Handle invocation that has returned for the
\* entry of this call.
C15_RegisterBeforeAppend ==
    \A c \in Calls :
        calls[c].kind = "execute" =>
            /\ calls[c].pc = "xadd" => (c \in responses /\ chan[c].open)
            /\ calls[c].pc \in {"idle", "xadd"} =>
                  /\ EntriesOf(c) = {}
                  /\ \A p \in pipes : c \notin RPushKeys(p)
                  /\ chan[c].buf = <<>>
            /\ EntriesOf(c) # {} => chan[c].open \/ chan[c].closes > 0
            /\ calls[c].outcome = "response" =>
                  \E x \in handled :
                      /\ calls[c].resp.of = [task |-> x.task,
                                             stream |-> x.stream, id |-> x.id]
                      /\ <<x.stream, x.id>> \in EntriesOf(c)
                      /\ calls[c].resp.data = x.h.data
                      /\ calls[c].resp.err = x.h.err

\* An Execute call has returned the response of its handler.
C15_Witness ==
    \E c \in Calls :
        /\ calls[c].pc = "done" /\ calls[c].outcome = "response"
        /\ EntriesOf(c) # {}
        /\ \E x \in handled : <<x.stream, x.id>> \in EntriesOf(c)

\* C16: when XADD fails, Execute returns the error "failed to add message
\* to stream" without waiting: nothing was appended, no response is taken,
\* and the waiter is removed and its channel closed before the return.
\* Emit returns the same error.  The process does not abort.
C16_XAddFailure ==
    \A c \in Calls :
        calls[c].outcome = "xadd_error" =>
            /\ panicked = "no"
            /\ EntriesOf(c) = {}
            /\ calls[c].resp = NoRes
            /\ chan[c].buf = <<>>
            /\ calls[c].kind = "execute" =>
                  /\ calls[c].pc \in {"cleanup", "done"}
                  /\ calls[c].pc = "done" =>
                        /\ c \notin responses
                        /\ ~chan[c].open /\ chan[c].closes = 1
            /\ calls[c].kind = "emit" =>
                  (calls[c].pc = "done" /\ c \notin responses)

\* An Execute call and an Emit call have both returned the XADD error.
C16_Witness ==
    \E c, d \in Calls :
        /\ calls[c].kind = "execute" /\ calls[c].outcome = "xadd_error"
        /\ calls[c].pc = "done"
        /\ calls[d].kind = "emit" /\ calls[d].outcome = "xadd_error"

\* C17 as stated: for every request, also with timeout 0, an empty message
\* or createdTimestamp 0, Deserialize(Serialize(E)) is E in every field but
\* redisMessageID.
C17_FlatRoundTrip ==
    codec.pc \in {"deserialized", "read"} =>
        /\ codec.back.ok
        /\ [codec.back.req EXCEPT !.id = codec.req.id] = codec.req

\* C17, amended: for every request with a timeout above 0 and a
\* createdTimestamp not below 0, also with an empty message or
\* createdTimestamp 0, Deserialize(Serialize(E)) is E in every field but
\* redisMessageID (byte fields by content).
C17_FlatRoundTripSet ==
    ( /\ codec.pc \in {"deserialized", "read"}
      /\ codec.req.t > 0
      /\ codec.req.c >= 0 )
    => /\ codec.back.ok
       /\ [codec.back.req EXCEPT !.id = codec.req.id] = codec.req

\* A request with an empty message, createdTimestamp 0 and a
\* redisMessageID went through Serialize, which wrote i, r, p and t, and
\* Deserialize.
C17_Witness ==
    /\ codec.pc = "deserialized"
    /\ codec.req.t > 0 /\ codec.req.c = 0 /\ codec.req.m = <<>>
    /\ codec.req.id # 0
    /\ DOMAIN codec.flat = {"i", "r", "p", "t"}
    /\ codec.back.ok

\* C18: ingress dialect parity.  For every request, deserializeMessage of
\* its blob under data gives the same request as deserializeMessage of the
\* flat field map made for it, in every field, the timeout of a request
\* whose timeout is unset or 0 included.
C18_DialectParity ==
    codec.pc = "read" =>
        /\ codec.viaA.ok /\ codec.viaB.ok
        /\ codec.viaA.req = codec.viaB.req

\* C19: a flat field map that lacks any of i, r, p is rejected by
\* Deserialize with an error and gives no request, whatever other keys it
\* has.
C19_RequiredKeys ==
    ( /\ codec.pc \in {"flatread", "decoded", "dropped", "handled"}
      /\ ~({"i", "r", "p"} \subseteq DOMAIN codec.msg.values) )
    => /\ ~codec.back.ok
       /\ codec.back.err = "attribute not found in message data"
       /\ codec.back.req = ZeroReq

\* Deserialize was given a field map with i, r and other keys, data among
\* them, and without p.
C19_Witness ==
    /\ codec.pc = "flatread"
    /\ {"i", "r", "m", "t", "c", "data"} \subseteq DOMAIN codec.msg.values
    /\ "p" \notin DOMAIN codec.msg.values
    /\ ~codec.back.ok

\* C20: when the Dialect A attempt on an entry fails, the consumer falls
\* through to Dialect B: an entry whose data cannot be decoded as a blob
\* and whose flat fields i, r, p are valid is decoded from them, not
\* dropped.
C20_FallThrough ==
    ( /\ codec.pc \in {"decoded", "dropped", "handled"}
      /\ "data" \in DOMAIN codec.msg.values
      /\ \/ codec.msg.values["data"].ty \notin {"string", "bytes"}
         \/ ~codec.msg.values["data"].v.valid
      /\ codec.back.ok )
    => /\ codec.got.ok
       /\ codec.got.req = StampID(codec.back.req, codec.msg.id)

\* C21: every request accepted on ingress carries a requestID: an entry
\* whose blob or flat fields hold no requestID, or an empty one, is not
\* decoded into a request, handed to a handler and answered under an empty
\* reply key.
C21_RequestIDPresent ==
    codec.pc \in {"decoded", "handled"} =>
        /\ codec.got.req.i # 0
        /\ \A p \in codec.pipe : 0 \notin RPushKeys(p)

\* C22: CreateHandler(stream, payload) with no constructor registered for
\* the stream returns the error "no handler constructor registered for
\* stream: <name>" and calls no constructor; otherwise it calls the
\* registered constructor exactly once, with the payload bytes and the
\* repository registered for the stream (nil when none), and returns what
\* the constructor returned.
C22_CreateHandler ==
    factory.last.op = "CreateHandler" =>
        LET call == factory.last
            s == call.streamName
            out == call.created
        IN  /\ out.streamName = s
            /\ s \notin DOMAIN call.constructors =>
                  /\ out.err = "no handler constructor registered for stream"
                  /\ out.called = <<>>
                  /\ out.sub = "nil"
            /\ s \in DOMAIN call.constructors =>
                  /\ out.err = ""
                  /\ Len(out.called) = 1
                  /\ out.called[1].constructor = call.constructors[s]
                  /\ out.called[1].data = call.arg
                  /\ out.called[1].repo =
                        (IF s \in DOMAIN call.repositories
                         THEN call.repositories[s] ELSE "nil")
                  /\ out.sub = call.made.sub
                  /\ out.suberr = call.made.err

\* C22 witness: a constructor is registered for the stream and no
\* repository; CreateHandler has called it with nil and returned its handler.
C22_Witness ==
    /\ factory.last.op = "CreateHandler"
    /\ factory.last.streamName \in DOMAIN factory.last.constructors
    /\ factory.last.streamName \notin DOMAIN factory.last.repositories
    /\ Len(factory.last.created.called) = 1
    /\ factory.last.created.called[1].repo = "nil"
    /\ factory.last.created.sub = "handler"

\* What the factory holds for a stream: its constructor and its repository.
RegisteredFor(f, s) ==
    [constructor |-> IF s \in DOMAIN f.constructors
                     THEN f.constructors[s] ELSE "unregistered",
     repository |-> IF s \in DOMAIN f.repositories
                    THEN <<f.repositories[s]>> ELSE <<>>]

\* C23: RegisterHandler overwrites: after any sequence of RegisterHandler and
\* RegisterRepository calls CreateHandler for a stream uses the constructor
\* registered last for it; registering the same constructor a second time
\* leaves the factory as the first registration left it; and a registration
\* for one stream changes nothing of what is registered for another.
C23_RegisterOverwrite ==
    [][LET call == factory'.last
           s == call.streamName
       IN  /\ call.op = "CreateHandler" /\ factory.latest[s] # "none" =>
                 /\ Len(call.created.called) = 1
                 /\ call.created.called[1].constructor = factory.latest[s]
           /\ call.op = "RegisterHandler" =>
                 RegisteredFor(factory', s).constructor = call.arg
           /\ /\ call.op = "RegisterHandler"
               /\ factory.last.op = "RegisterHandler"
               /\ factory.last.streamName = s
               /\ factory.last.arg = call.arg
               => /\ factory'.constructors = factory.constructors
                  /\ factory'.repositories = factory.repositories
           /\ call.op \in {"RegisterHandler", "RegisterRepository"} =>
                 \A o \in Streams \ {s} :
                     RegisteredFor(factory', o) = RegisteredFor(factory, o)
      ]_vars

\* C23 witness: a stream that had one constructor has just been given
\* another, while the other stream has a constructor and a repository.
C23_Witness ==
    /\ factory.last.op = "RegisterHandler"
    /\ factory.last.streamName = "A"
    /\ RegisteredFor([constructors |-> factory.last.constructors,
                      repositories |-> <<>>], "A").constructor = "k1"
    /\ RegisteredFor(factory, "A").constructor = "k2"
    /\ RegisteredFor(factory, "B") =
          [constructor |-> "k1", repository |-> <<"repo1">>]

\* The streams for which RegisterHandler has been called.
WithConstructor == {s \in Streams : factory.latest[s] # "none"}

\* C24: HasHandler(s) is true exactly when a constructor has been registered
\* for s; GetStreams returns exactly the streams with a registered
\* constructor, each once, whatever repositories are registered; and
\* HasHandler(s) is true exactly when CreateHandler(s, ...) does not fail
\* with the missing-constructor error.
C24_HasHandlerGetStreams ==
    LET call == factory.last
    IN  /\ call.op = "HasHandler" =>
              (call.has <=> call.streamName \in WithConstructor)
        /\ call.op = "GetStreams" =>
              /\ {call.streams[n] : n \in DOMAIN call.streams}
                    = WithConstructor
              /\ Len(call.streams) = Cardinality(WithConstructor)
        /\ call.op = "CreateHandler" =>
              (call.created.err = "" <=> call.streamName \in WithConstructor)
        /\ factory.on =>
              \A s \in Streams, data \in Payloads,
                 made \in ConstructorResults :
                  HasHandler(factory, s) <=>
                      CreateHandler(factory, s, data, made).err
                          # "no handler constructor registered for stream"

\* C24 witness: stream A has a constructor only and stream B a repository
\* only; GetStreams has returned A alone.
C24_Witness ==
    /\ factory.last.op = "GetStreams"
    /\ DOMAIN factory.constructors = {"A"}
    /\ DOMAIN factory.repositories = {"B"}
    /\ factory.last.streams = <<"A">>

\* Every reply pipeline and every response held by a task, a channel or a
\* caller was made of a Handle return, and every Handle ran on an entry that
\* decodes (while the process lives: a panic ends its record of Handle
\* calls).
FromHandle ==
    panicked = "no" =>
    LET returned == {[task |-> x.task, stream |-> x.stream, id |-> x.id] :
                        x \in handled}
        made(resp) == resp = NoRes \/ resp.of \in returned
    IN  /\ \A p \in pipes : p.resp.of \in returned
        /\ \A t \in DOMAIN tasks : made(tasks[t].res)
        /\ \A c \in Calls :
              /\ made(calls[c].resp)
              /\ \A n \in 1..Len(chan[c].buf) : made(chan[c].buf[n])
        /\ \A x \in handled :
              DeserializeMessage(XMessage(x.id, stream[x.stream][x.id])).ok

\* C25: an entry that fails to decode, or whose handler constructor
\* returns an error, is logged and dropped: no Handle is started for it, no
\* RPUSH / EXPIRE / XDEL is issued and no waiter notified for it (replies
\* and notifications only come from Handle returns), and the consumer task
\* is back in its loop, issuing the next XREAD.
C25_DropOnError ==
    /\ FromHandle
    /\ \A t \in DOMAIN tasks :
          /\ tasks[t].pc \in {"start", "loop", "xread", "handle", "lookup",
                               "send"}
          /\ \A n \in 1..Len(recv[t]) :
                LET k == recv[t][n]
                    started == \/ <<t, k>> \in running
                               \/ \E x \in handled : x.task = t /\ x.id = k
                IN  /\ ~DeserializeMessage(
                            XMessage(k, stream[tasks[t].stream][k])).ok
                          => ~started
                    /\ (~started /\ n = Len(recv[t])) =>
                          /\ tasks[t].pc \in {"loop", "xread"}
                          /\ tasks[t].res = NoRes

\* C25 witness: a task received an entry that does not decode, dropped it,
\* and then received and handled the next entry of its stream.
C25_Witness ==
    \E t \in DOMAIN tasks :
        /\ Len(recv[t]) = 2
        /\ ~DeserializeMessage(XMessage(recv[t][1],
                stream[tasks[t].stream][recv[t][1]])).ok
        /\ \E x \in handled :
              x.task = t /\ x.stream = tasks[t].stream /\ x.id = recv[t][2]
        /\ \A x \in handled : x.id # recv[t][1]

\* C26: a failure of the reply pipeline's Exec is only logged: the consumer
\* task goes on, and a waiter registered locally under the requestID is
\* still given the response.  While an Execute call waits with an empty
\* channel and the pipeline for its requestID has failed, the task that
\* issued the pipeline is looking the waiter up or sending to it, holding
\* the response.
C26_ExecFailureLogged ==
    panicked = "no" =>
        \A p \in pipes : \A c \in RPushKeys(p) \cap Calls :
            ( /\ ~p.ok
              /\ calls[c].kind = "execute" /\ calls[c].pc = "select"
              /\ chan[c].buf = <<>> ) =>
            /\ p.task \in DOMAIN tasks
            /\ tasks[p.task].pc \in {"lookup", "send"}
            /\ tasks[p.task].res = p.resp

\* C26 witness: the Exec of the pipeline for an Execute call failed, the
\* call received the handler's result all the same, and the task is back in
\* its loop.
C26_Witness ==
    \E p \in pipes : \E c \in RPushKeys(p) \cap Calls :
        /\ ~p.ok
        /\ calls[c].outcome = "response"
        /\ calls[c].resp = p.resp
        /\ p.resp.data = "res"
        /\ p.task \in DOMAIN tasks /\ tasks[p.task].pc = "loop"

\* C27: local delivery never holds a consumer task up: with a waiter
\* registered the response is offered to its channel and the task gives up
\* after the 5 s timeout, with none the step is skipped; either way
\* sendResponse returns and the task goes on to its next XREAD.  Every step
\* a task takes in the lookup leads to the send or back to the loop, and
\* every step it takes in the send leads back to the loop.
C27_LocalDeliveryReturns ==
    [][\A t \in DOMAIN tasks :
          ( /\ tasks[t].pc \in {"lookup", "send"}
            /\ stopPc' = stopPc
            /\ t \notin DOMAIN tasks' \/ tasks'[t] # tasks[t] ) =>
          /\ t \in DOMAIN tasks'
          /\ tasks[t].pc = "lookup" => tasks'[t].pc \in {"send", "loop"}
          /\ tasks[t].pc = "send" => tasks'[t].pc = "loop"
      ]_vars

\* The requestID field of entry k of stream s as XADD stored it.
StoredID(s, k) ==
    IF "i" \in DOMAIN stream[s][k] THEN stream[s][k]["i"].v ELSE 0

\* What a task has in hand was read from the task's own stream, and from no
\* other stream.
OwnStream ==
    \A t \in DOMAIN tasks :
        tasks[t].pc \in {"handle", "lookup", "send"} =>
            /\ tasks[t].id \in 1..Len(stream[tasks[t].stream])
            /\ tasks[t].req.id = tasks[t].id
            /\ tasks[t].req.i = StoredID(tasks[t].stream, tasks[t].id)
            /\ \A o \in Streams \ {tasks[t].stream} :
                  \A k \in 1..Len(stream[o]) :
                      StoredID(o, k) # tasks[t].req.i

\* C30: Run starts exactly one consumer task for each stream registered at
\* the time of the call and none for any other stream (so none at all when
\* no stream is registered), and each task reads its own stream only.
C30_RunOneTaskPerStream ==
    [][/\ OwnStream'
       /\ panicked' = "no" =>
             \A t \in DOMAIN tasks :
                 t \in DOMAIN tasks' /\ tasks'[t].stream = tasks[t].stream
       /\ LET registered == {s \in Streams : subscribers[s] # NoCtor}
              new == (Len(tasks) + 1)..Len(tasks')
          IN  /\ \A n \in new :
                    tasks'[n].stream \in registered /\ tasks'[n].pc = "start"
              /\ new # {} =>
                    \A s \in registered :
                        Cardinality({n \in new : tasks'[n].stream = s}) = 1
      ]_vars

\* C30 witness: both streams were registered when Run was called; there is
\* one task on each, and each has an entry of its own stream in Handle.
C30_Witness ==
    /\ Len(tasks) = 2
    /\ tasks[1].stream # tasks[2].stream
    /\ tasks[1].pc = "handle" /\ tasks[2].pc = "handle"
    /\ tasks[1].req.i # tasks[2].req.i

C29_RegistryUnderLock ==
    /\ \A x \in registry.access :
          x.kind = "write" => registry.writer = x.who
    /\ \A x, y \in registry.access :
          (x.kind = "write" /\ y.kind = "read") => y.who \in registry.readers

\* C31: Execute returns the response whenever the delivery to the waiter
\* channel is the first of the three events of its select: a call for which
\* a response was on the channel before its ctx was done and before its
\* timer fired returns that response, not the cancellation or the timeout
\* error; and a call that left the select returns exactly one of the three.
C31_FirstEventWins ==
    \A c \in Calls :
        /\ ( /\ calls[c].first = "response"
              /\ calls[c].pc \in {"cleanup", "done"} ) =>
                 /\ calls[c].outcome = "response"
                 /\ calls[c].resp # NoRes
        /\ calls[c].outcome \in {"cancelled", "timeout"} =>
              calls[c].resp = NoRes
        /\ calls[c].outcome = "response" => calls[c].resp # NoRes

\* The decimal strings of the returnResult values of Requests.
DecimalOf(n) ==
    CASE n = 0 - 1 -> <<"-", "1">>
      [] n = 0 -> <<"0">>
      [] n = 1 -> <<"1">>
      [] n = 2 -> <<"2">>

\* C32: egress serialization yields a flat field map with i, r and p, r
\* being the decimal string of returnResult, with m exactly when message is
\* not empty, t exactly when timeout > 0, c exactly when createdTimestamp
\* > 0, and with no other key (no data, no redisMessageID); every value is a
\* string.
C32_SerializeKeys ==
    codec.pc \in {"serialized", "deserialized"} =>
        LET q == codec.req
            flat == codec.flat
        IN  /\ DOMAIN flat = {"i", "r", "p"}
                  \cup (IF q.m # <<>> THEN {"m"} ELSE {})
                  \cup (IF q.t > 0 THEN {"t"} ELSE {})
                  \cup (IF q.c > 0 THEN {"c"} ELSE {})
            /\ \A k \in DOMAIN flat : flat[k].ty = "string"
            /\ flat["i"].v = q.i
            /\ flat["r"].v = DecimalOf(q.r)
            /\ flat["p"].v = q.p
            /\ "m" \in DOMAIN flat => flat["m"].v = q.m

\* C32 witness: a request with a redisMessageID, an empty message, timeout 0
\* and a positive createdTimestamp was serialized to the keys i, r, p, c.
C32_Witness ==
    /\ codec.pc = "serialized"
    /\ codec.req.id # 0 /\ codec.req.m = <<>> /\ codec.req.t = 0
    /\ codec.req.c > 0
    /\ DOMAIN codec.flat = {"i", "r", "p", "c"}

\* The entry at hand is a flat field map of exactly i, r = "1" and p, all
\* strings.
BareRequestEntry ==
    /\ DOMAIN codec.msg.values = {"i", "r", "p"}
    /\ \A k \in {"i", "r", "p"} : codec.msg.values[k].ty = "string"
    /\ codec.msg.values["r"].v = <<"1">>

\* C33: flat ingress of a field map {i, r: "1", p} without m, t and c
\* succeeds, with the timeout defaulted to 300, an empty message and a zero
\* createdTimestamp; the entry is not dropped, its handler runs and the
\* reply to what it returned is pushed under the key that is the value of
\* i.
C33_BareRequest ==
    (codec.pc \in {"flatread", "decoded", "dropped", "handled"}
        /\ BareRequestEntry) =>
        LET values == codec.msg.values
        IN  /\ codec.back.ok
            /\ codec.back.req = [id |-> 0, i |-> values["i"].v, r |-> 1,
                                  p |-> values["p"].v, m |-> <<>>,
                                  t |-> 300, c |-> 0]
            /\ codec.pc # "dropped"
            /\ codec.pc \in {"decoded", "handled"} =>
                  codec.got = Decoded([codec.back.req EXCEPT
                                          !.id = codec.msg.id])
            /\ \A cmds \in {p.cmds : p \in codec.pipe} :
                  /\ cmds[1].op = "RPUSH" /\ cmds[1].key = values["i"].v
                  /\ cmds[2].op = "EXPIRE" /\ cmds[2].key = values["i"].v

\* C33 witness: such an entry with requestID 7 was handled, its handler
\* returned a result, and the reply was pushed under 7.
C33_Witness ==
    /\ codec.pc = "handled" /\ BareRequestEntry
    /\ codec.msg.values["i"].v = 7
    /\ \E p \in codec.pipe : p.resp.data = "res" /\ RPushKeys(p) = {7}

\* C34: the consumer enters the reply path for a message exactly when its
\* returnResult is 1.  For 0 and for any other decoded value (2, -1) Handle
\* runs, what it returned is discarded and nothing is pushed, expired or
\* deleted; for 1 what Handle returned (unless it is (nil, nil)) goes to
\* sendResponse, which issues its commands once the reply is encoded.
C34_ReplyPathIffOne ==
    codec.pc = "handled" =>
        /\ codec.got.req.r # 1 => codec.pipe = {}
        /\ codec.got.req.r = 1 =>
              ( codec.pipe # {} <=>
                  (~(codec.h.data = "nil" /\ codec.h.err = "nil")
                      /\ codec.enc) )
        /\ \A p \in codec.pipe :
              p.resp.data = codec.h.data /\ p.resp.err = codec.h.err

\* C34 witness: Handle ran on an entry with returnResult -1 and returned a
\* result and an error; nothing was issued.
C34_Witness ==
    /\ codec.pc = "handled"
    /\ codec.got.req.r = 0 - 1
    /\ codec.h.data = "res" /\ codec.h.err = "err" /\ codec.enc
    /\ codec.pipe = {}

\* C35: when pub.Serialize or the broker serializer's Serialize returns an
\* error, Execute and Emit return it having changed nothing: the step that
\* ends the call with that error leaves the waiter registry, the channels,
\* the streams, the pipelines and the tasks as they were, the call has
\* waited for nothing, and no entry of a stream carries its requestID.
C35_SerializeErrorChangesNothing ==
    [][\A c \in Calls :
          /\ ( /\ calls'[c].outcome = "serialize_error"
                /\ calls[c].outcome # "serialize_error" ) =>
                /\ calls[c].pc = "idle" /\ calls'[c].pc = "done"
                /\ calls'[c].kind \in {"execute", "emit"}
                /\ calls'[c].first = "none" /\ calls'[c].resp = NoRes
                /\ \A d \in Calls \ {c} : calls'[d] = calls[d]
                /\ responses' = responses /\ chan' = chan
                /\ stream' = stream /\ pipes' = pipes
                /\ tasks' = tasks /\ running' = running
          /\ calls'[c].outcome = "serialize_error" =>
                /\ c \notin responses' /\ chan'[c] = NoChan
                /\ \A s \in Streams : \A k \in 1..Len(stream'[s]) :
                      StoredID(s, k)' # c
      ]_vars

\* C35 witness: an Execute and an Emit have both ended with the
\* serialization error; no waiter is registered and the streams are empty.
C35_Witness ==
    /\ \E c \in Calls : /\ calls[c].kind = "execute"
                         /\ calls[c].outcome = "serialize_error"
    /\ \E c \in Calls : /\ calls[c].kind = "emit"
                         /\ calls[c].outcome = "serialize_error"
    /\ responses = {}
    /\ \A s \in Streams : stream[s] = <<>>

\* C36: when encoding the Transport Response fails in sendResponse the
\* consumer issues no RPUSH, EXPIRE or XDEL and notifies no local waiter;
\* the entry stays in the stream, and the Execute call that waits for it
\* ends by context cancellation or by the timeout only.
C36_EncodeFailure ==
    \A x \in handled :
        ~x.enc =>
            /\ NoReplyFor(x)
            /\ (\A y \in handled :
                    (y.stream = x.stream /\ y.id = x.id) => ~y.enc) =>
                  /\ <<x.stream, x.id>> \notin Deleted
                  /\ \A c \in Calls :
                        (StoredID(x.stream, x.id) = c
                            /\ calls[c].kind = "execute") =>
                        /\ calls[c].outcome \in
                              {"none", "cancelled", "timeout"}
                        /\ calls[c].resp = NoRes /\ chan[c].buf = <<>>

\* C36 witness: Handle returned a result for the entry of an Execute call,
\* its encoding failed, the call ended by the timeout and the entry is
\* still in the stream.
C36_Witness ==
    \E x \in handled : \E c \in Calls :
        /\ ~x.enc /\ x.h.data = "res"
        /\ StoredID(x.stream, x.id) = c
        /\ calls[c].kind = "execute" /\ calls[c].outcome = "timeout"
        /\ calls[c].pc = "done"
        /\ <<x.stream, x.id>> \notin Deleted

\* The Execute calls that have stored a waiter and have not returned.
Waiting == {c \in Calls : /\ calls[c].kind = "execute"
                          /\ calls[c].pc \in {"xadd", "select", "cleanup"}}

\* C37: consumer tasks and sendResponse never add, remove or close an entry
\* of the waiter registry.  While the process lives, a step that changes
\* the registry or opens or closes a channel is a step of one Execute call
\* and of no task: the insertion of its requestID with a fresh channel
\* after serialization, or the removal with the close on its return; so the
\* registered requestIDs are at every moment those of the Execute calls
\* that registered and have not returned.
C37_RegistryOnlyByExecute ==
    [][/\ responses' = Waiting'
       /\ \A c \in Calls : chan'[c].open <=> c \in responses'
       /\ ( /\ panicked' = "no"
             /\ \/ responses' # responses
                \/ \E c \in Calls : \/ chan'[c].open # chan[c].open
                                     \/ chan'[c].closes # chan[c].closes ) =>
           /\ tasks' = tasks /\ running' = running /\ pipes' = pipes
           /\ \E c \in Calls :
                 /\ \A d \in Calls \ {c} :
                       chan'[d] = chan[d] /\ calls'[d] = calls[d]
                 /\ \/ /\ calls[c].pc = "idle" /\ calls'[c].pc = "xadd"
                       /\ responses' = responses \cup {c}
                       /\ c \notin responses
                       /\ chan'[c] = [buf |-> <<>>, open |-> TRUE,
                                      closes |-> 0]
                    \/ /\ calls[c].pc = "cleanup" /\ calls'[c].pc = "done"
                       /\ responses' = responses \ {c}
                       /\ c \in responses
                       /\ chan[c].open /\ ~chan'[c].open
                       /\ chan'[c].closes = chan[c].closes + 1
      ]_vars

\* C37 witness: a consumer task has put a response on the channel of a
\* waiting Execute call and is back in its loop; the registry still holds
\* that call, and another call has registered and returned.
C37_Witness ==
    \E c, d \in Calls : \E t \in DOMAIN tasks :
        /\ c # d
        /\ calls[c].pc = "select" /\ chan[c].buf # <<>>
        /\ chan[c].buf[1].of.task = t /\ tasks[t].pc = "loop"
        /\ responses = {c}
        /\ calls[d].kind = "execute" /\ calls[d].pc = "done"
        /\ chan[d].closes = 1

\* C38: registration after Run has no effect on the consumers Run started.
\* The handler of every entry a task has handled was built by the
\* constructor that was registered for the task's stream when Run started
\* the task, whatever was registered for the stream afterwards; and only
\* the tasks Run started for a stream receive its entries.
C38_LateRegistration ==
    /\ \A x \in handled :
          /\ x.task \in DOMAIN tasks
          /\ x.stream = tasks[x.task].stream
          /\ x.by = tasks[x.task].atRun
    /\ \A t \in DOMAIN tasks :
          tasks[t].atRun # NoCtor /\ (recv[t] # <<>> => tasks[t].ctor # NoCtor)

\* ----------------------------------------------------------- fairness

\* Bus.Execute's select: one of its three cases.
ExecuteSelect(c) == ExecuteRecv(c) \/ ExecuteCtxDone(c) \/ ExecuteTimeout(c)

\* The Go scheduler runs every runnable goroutine, and the 300 s timer of
\* a select fires: a call at its select, or at its deferred cleanup, goes
\* on.
FairSpec ==
    /\ Init
    /\ [][Next]_vars
    /\ \A c \in Calls : WF_vars(ExecuteSelect(c))
    /\ \A c \in Calls : WF_vars(ExecuteCleanup(c))

====
